---- MODULE Spec2Model ----
(***************************************************************************)
(* Model of the item-store emulation engine of mockaws                     *)
(* (src/src/dynamodb-handler.ts, class DynamoDBHandler, over the SQLite    *)
(* tables of src/src/database.ts) and of its object store (class           *)
(* S3Handler, over the table objects).                                     *)
(*                                                                         *)
(* Strings are sequences of one-character strings, so that the text the    *)
(* code builds with JSON.stringify, compares with ORDER BY and matches     *)
(* with LIKE is modelled character by character.  JSON scalars are tagged  *)
(* records, JSON objects are sequences of <<name, value>> pairs in         *)
(* insertion order (the order a JavaScript object keeps its string keys).  *)
(* The alphabet of the inputs leaves out the quote and the backslash, the  *)
(* two characters JSON.stringify escapes inside a string.                  *)
(***************************************************************************)
EXTENDS Integers, Sequences, FiniteSets, TLC

VARIABLES
    dynamodb_tables,   \* rows of table dynamodb_tables
    dynamodb_items,    \* rows of table dynamodb_items
    clock,             \* the last value Date.now() returned
    request,           \* the request the last handler call served
    response,          \* the Response that call returned
    pager,             \* a client following LastEvaluatedKey page by page
    objects,           \* rows of table objects
    inflight           \* requests whose body is being read, requests served

vars == <<dynamodb_tables, dynamodb_items, clock, request, response, pager,
          objects, inflight>>

----------------------------------------------------------------------------
(* Characters and strings                                                  *)

\* ASCII codes of the characters in use (SQLite compares TEXT with memcmp).
Code ==
    (" " :> 32) @@ ("#" :> 35) @@ ("$" :> 36) @@ ("%" :> 37) @@ ("," :> 44) @@
    ("0" :> 48) @@ ("1" :> 49) @@ ("2" :> 50) @@ ("3" :> 51) @@ ("4" :> 52) @@
    ("5" :> 53) @@ ("6" :> 54) @@ ("7" :> 55) @@ ("8" :> 56) @@ ("9" :> 57) @@
    (":" :> 58) @@ ("=" :> 61) @@ ("A" :> 65) @@ ("E" :> 69) @@ ("S" :> 83) @@
    ("T" :> 84) @@ ("_" :> 95) @@ ("a" :> 97) @@ ("b" :> 98) @@ ("d" :> 100) @@
    ("e" :> 101) @@ ("f" :> 102) @@ ("i" :> 105) @@ ("l" :> 108) @@
    ("m" :> 109) @@ ("n" :> 110) @@ ("p" :> 112) @@ ("r" :> 114) @@
    ("s" :> 115) @@ ("t" :> 116) @@ ("u" :> 117) @@ ("v" :> 118) @@
    ("x" :> 120) @@ ("y" :> 121) @@ ("{" :> 123) @@ ("}" :> 125) @@
    ("\"" :> 34) @@ ("c" :> 99) @@ ("k" :> 107) @@ ("o" :> 111) @@
    ("B" :> 66) @@ ("[" :> 91) @@ ("]" :> 93) @@ ("I" :> 73)

DigitChar == <<"0", "1", "2", "3", "4", "5", "6", "7", "8", "9">>

IsDigit(c) == Code[c] >= 48 /\ Code[c] <= 57

\* String.prototype.startsWith
StartsWith(s, prefix) ==
    Len(s) >= Len(prefix) /\ SubSeq(s, 1, Len(prefix)) = prefix

\* The first index >= i at which character c occurs in s, or Len(s) + 1.
RECURSIVE IndexOfFrom(_, _, _)
IndexOfFrom(s, c, i) ==
    IF i > Len(s) THEN Len(s) + 1
    ELSE IF s[i] = c THEN i
    ELSE IndexOfFrom(s, c, i + 1)

\* memcmp order of two strings: s sorts strictly before t.
RECURSIVE StrLess(_, _)
StrLess(s, t) ==
    IF t = <<>> THEN FALSE
    ELSE IF s = <<>> THEN TRUE
    ELSE IF Code[Head(s)] # Code[Head(t)] THEN Code[Head(s)] < Code[Head(t)]
    ELSE StrLess(Tail(s), Tail(t))

----------------------------------------------------------------------------
(* JSON values, JSON.stringify and JSON.parse                              *)

Str(s) == [t |-> "S", s |-> s]
Num(n) == [t |-> "N", n |-> n]
Bool(b) == [t |-> "B", b |-> b]

\* JavaScript truthiness of a scalar: 0, "" and false are falsy.
Truthy(v) ==
    CASE v.t = "S" -> v.s # <<>>
      [] v.t = "N" -> v.n # 0
      [] v.t = "B" -> v.b

RECURSIVE Digits(_)
Digits(n) ==
    IF n < 10 THEN <<DigitChar[n + 1]>>
    ELSE Digits(n \div 10) \o <<DigitChar[(n % 10) + 1]>>

Quoted(s) == <<"\"">> \o s \o <<"\"">>

StringifyValue(v) ==
    CASE v.t = "S" -> Quoted(v.s)
      [] v.t = "N" -> Digits(v.n)
      [] v.t = "B" -> IF v.b THEN <<"t", "r", "u", "e">>
                             ELSE <<"f", "a", "l", "s", "e">>

RECURSIVE StringifyMembers(_)
StringifyMembers(obj) ==
    IF obj = <<>> THEN <<>>
    ELSE Quoted(obj[1][1]) \o <<":">> \o StringifyValue(obj[1][2])
         \o (IF Len(obj) > 1 THEN <<",">> ELSE <<>>)
         \o StringifyMembers(Tail(obj))

\* JSON.stringify of an object: its members in insertion order.
JSONstringify(obj) == <<"{">> \o StringifyMembers(obj) \o <<"}">>

RECURSIVE ParseNat(_, _, _)
ParseNat(s, i, acc) ==
    IF i <= Len(s) /\ IsDigit(s[i])
    THEN ParseNat(s, i + 1, 10 * acc + (Code[s[i]] - 48))
    ELSE [v |-> Num(acc), next |-> i]

\* The JSON scalar that starts at s[i], and the index after it.
ParseValue(s, i) ==
    IF s[i] = "\""
    THEN LET j == IndexOfFrom(s, "\"", i + 1)
         IN  [v |-> Str(SubSeq(s, i + 1, j - 1)), next |-> j + 1]
    ELSE IF s[i] = "t" THEN [v |-> Bool(TRUE), next |-> i + 4]
    ELSE IF s[i] = "f" THEN [v |-> Bool(FALSE), next |-> i + 5]
    ELSE ParseNat(s, i, 0)

RECURSIVE ParseMembers(_, _, _)

\* The member whose name ends at s[j] and whose value is val: the last one,
\* or followed by a comma and the next member.
ParseMember(s, name, val, acc) ==
    IF s[val.next] = ","
    THEN ParseMembers(s, val.next + 1, Append(acc, <<name, val.v>>))
    ELSE Append(acc, <<name, val.v>>)

ParseNamed(s, i, j, acc) ==
    ParseMember(s, SubSeq(s, i + 1, j - 1), ParseValue(s, j + 2), acc)

\* The members of an object from the quote at s[i] on.
ParseMembers(s, i, acc) == ParseNamed(s, i, IndexOfFrom(s, "\"", i + 1), acc)

\* JSON.parse of the text of an object of scalars.
JSONparse(s) == IF s[2] = "}" THEN <<>> ELSE ParseMembers(s, 2, <<>>)

----------------------------------------------------------------------------
(* JavaScript objects                                                      *)

\* obj[name] !== undefined
Has(obj, name) == \E i \in 1..Len(obj) : obj[i][1] = name

\* obj[name], for a name the object has
Get(obj, name) == obj[CHOOSE i \in 1..Len(obj) : obj[i][1] = name][2]

\* obj[name] = v: an own property keeps its place, a new one goes last.
SetProp(obj, name, v) ==
    IF Has(obj, name)
    THEN [i \in 1..Len(obj) |-> IF obj[i][1] = name THEN <<name, v>> ELSE obj[i]]
    ELSE Append(obj, <<name, v>>)

\* The object {name: obj[name]}, or {} when obj[name] is undefined.
Pick(obj, name) == IF Has(obj, name) THEN <<<<name, Get(obj, name)>>>> ELSE <<>>

\* The attribute names the handler knows.
P == <<"$", "p">>
S == <<"$", "s">>
ID == <<"i", "d">>

----------------------------------------------------------------------------
(* String helpers of the update-expression interpreter                     *)

\* String.prototype.includes
Includes(s, sub) ==
    \E i \in 1..(Len(s) - Len(sub) + 1) : SubSeq(s, i, i + Len(sub) - 1) = sub

\* String.prototype.split on a one-character separator
RECURSIVE Split(_, _)
SplitAt(s, c, j) ==
    IF j > Len(s) THEN <<s>>
    ELSE <<SubSeq(s, 1, j - 1)>> \o Split(SubSeq(s, j + 1, Len(s)), c)

Split(s, c) == SplitAt(s, c, IndexOfFrom(s, c, 1))

RECURSIVE TrimStart(_)
TrimStart(s) == IF s # <<>> /\ Head(s) = " " THEN TrimStart(Tail(s)) ELSE s

RECURSIVE TrimEnd(_)
TrimEnd(s) ==
    IF s # <<>> /\ s[Len(s)] = " " THEN TrimEnd(SubSeq(s, 1, Len(s) - 1)) ELSE s

\* String.prototype.trim
Trim(s) == TrimEnd(TrimStart(s))

\* The least element of a non-empty set of indices.
First(indices) == CHOOSE i \in indices : \A j \in indices : i <= j

\* The capture group of /SET\s+(.+)/ for a match whose \s+ starts at s[i]:
\* the greedy \s+ gives one blank back when nothing else is left for (.+).
SetGroup(rest) == IF TrimStart(rest) = <<>> THEN <<" ">> ELSE TrimStart(rest)

\* The places where /SET\s+(.+)/ can match: "SET", a blank, one more character.
SetStarts(s) ==
    {i \in 1..Len(s) : /\ i + 4 <= Len(s)
                       /\ SubSeq(s, i, i + 2) = <<"S", "E", "T">>
                       /\ s[i + 3] = " "}

\* UpdateExpression.match(/SET\s+(.+)/): the capture group as a sequence of
\* zero or one string.
SetMatch(s) ==
    IF SetStarts(s) = {} THEN <<>>
    ELSE <<SetGroup(SubSeq(s, First(SetStarts(s)) + 3, Len(s)))>>

----------------------------------------------------------------------------
(* Prepared statements (setupQueries) over the rows of dynamodb_tables and *)
(* dynamodb_items                                                          *)

\* An INSERT that keeps the row a table already has.
createTableIfAbsent(tables, table_name, key_schema, attribute_definitions, created_at) ==
    IF \E r \in tables : r.table_name = table_name THEN tables
    ELSE tables \cup {[table_name |-> table_name, key_schema |-> key_schema,
                       attribute_definitions |-> attribute_definitions,
                       created_at |-> created_at]}

\* INSERT OR REPLACE INTO dynamodb_tables: the primary key is table_name.
createTable(tables, table_name, key_schema, attribute_definitions, created_at) ==
    {r \in tables : r.table_name # table_name}
    \cup {[table_name |-> table_name, key_schema |-> key_schema,
           attribute_definitions |-> attribute_definitions,
           created_at |-> created_at]}

\* A primary key of item_key alone.
ConflictingKey(r, table_name, item_key) == r.item_key = item_key

\* The row INSERT OR REPLACE removes: the one with the same primary key
\* (table_name, item_key).
Conflicting(r, table_name, item_key) ==
    r.table_name = table_name /\ r.item_key = item_key

\* INSERT OR REPLACE INTO dynamodb_items
putItem(items, table_name, item_key, item_data, created_at, updated_at) ==
    {r \in items : ~Conflicting(r, table_name, item_key)}
    \cup {[table_name |-> table_name, item_key |-> item_key,
           item_data |-> item_data, created_at |-> created_at,
           updated_at |-> updated_at]}

\* SELECT ... WHERE table_name = ? AND item_key = ?: the rows found (.get
\* returns the first, or undefined when there is none).
getItem(items, table_name, item_key) ==
    {r \in items : r.table_name = table_name /\ r.item_key = item_key}

\* A DELETE that leaves out the item_key condition.
deleteItemsOfTable(items, table_name, item_key) ==
    {r \in items : r.table_name # table_name}

\* DELETE FROM dynamodb_items WHERE table_name = ? AND item_key = ?
deleteItem(items, table_name, item_key) ==
    {r \in items : ~(r.table_name = table_name /\ r.item_key = item_key)}

\* The row of a set that ORDER BY item_key puts first.
FirstRow(rows) ==
    CHOOSE r \in rows : \A q \in rows : ~StrLess(q.item_key, r.item_key)

\* ORDER BY item_key: the rows of a set as a sequence in ascending memcmp
\* order of item_key.
RECURSIVE OrderByItemKey(_)
OrderByItemKey(rows) ==
    IF rows = {} THEN <<>>
    ELSE <<FirstRow(rows)>> \o OrderByItemKey(rows \ {FirstRow(rows)})

\* SELECT ... WHERE table_name = ? ORDER BY item_key
scanItems(items, table_name) ==
    OrderByItemKey({r \in items : r.table_name = table_name})

\* A transaction that keeps the writes of a callback that threw.
TransactionWithoutRollback(before, outcome) == outcome.db

\* db.transaction(fn)(): fn's writes are committed when it returns and rolled
\* back when it throws (the exception is thrown on to the caller).
Transaction(before, outcome) ==
    IF outcome.threw THEN before ELSE outcome.db

\* A transaction callback that ran to its end and left the rows db.
Ran(db) == [threw |-> FALSE, db |-> db]

----------------------------------------------------------------------------
(* Key derivation                                                          *)

\* item.id !== undefined && !keyAttrs.$p: an id is part of the key unless
\* $p is there and truthy.
TakesId(item) == Has(item, ID) /\ ~(Has(item, P) /\ Truthy(Get(item, P)))

\* A key that is the text of the whole item.
KeyOfWholeItem(item) == JSONstringify(item)

\* generateItemKey: the text of {$p, $s, id} in that order.
generateItemKey(item) ==
    JSONstringify(Pick(item, P) \o Pick(item, S)
                  \o (IF TakesId(item) THEN Pick(item, ID) ELSE <<>>))

\* extractKeyFromItem: the object {id, $p, $s} in that order.
extractKeyFromItem(item) == Pick(item, ID) \o Pick(item, P) \o Pick(item, S)

----------------------------------------------------------------------------
(* Request bodies are records that hold the fields the request carries.    *)

Present(body, field) == field \in DOMAIN body

\* A target that is never looked up in the name aliases.
LiteralName(upd, name) == name

\* ExpressionAttributeNames[attrName] || attrName, for a name that starts
\* with "#" when the request carries ExpressionAttributeNames.
AttrName(upd, name) ==
    IF /\ Present(upd, "ExpressionAttributeNames")
       /\ StartsWith(name, <<"#">>)
       /\ Has(upd.ExpressionAttributeNames, name)
       /\ Truthy(Get(upd.ExpressionAttributeNames, name))
    THEN Get(upd.ExpressionAttributeNames, name).s
    ELSE name

\* ExpressionAttributeValues && ExpressionAttributeValues[valueKey]
ValueResolved(upd, valueKey) ==
    /\ Present(upd, "ExpressionAttributeValues")
    /\ Has(upd.ExpressionAttributeValues, valueKey)
    /\ Truthy(Get(upd.ExpressionAttributeValues, valueKey))

\* item[attrName] = ExpressionAttributeValues[valueKey], when that resolves.
Assign(item, upd, name, valueKey) ==
    IF ValueResolved(upd, valueKey)
    THEN SetProp(item, AttrName(upd, name),
                 Get(upd.ExpressionAttributeValues, valueKey))
    ELSE item

\* The parts of one assignment, split at "=".
ApplyParts(item, parts, upd) ==
    IF Len(parts) = 2 /\ parts[1] # <<>> /\ parts[2] # <<>>
    THEN Assign(item, upd, Trim(parts[1]), Trim(parts[2]))
    ELSE item

\* One assignment of a SET clause applied to item.
ApplyAssignment(item, assignment, upd) ==
    ApplyParts(item, Split(Trim(assignment), "="), upd)

\* The assignments applied from the last to the first.
RECURSIVE ApplyAssignmentsBackwards(_, _, _)
ApplyAssignmentsBackwards(item, assignments, upd) ==
    IF assignments = <<>> THEN item
    ELSE ApplyAssignment(
             ApplyAssignmentsBackwards(item, Tail(assignments), upd),
             Head(assignments), upd)

RECURSIVE ApplyAssignments(_, _, _)
ApplyAssignments(item, assignments, upd) ==
    IF assignments = <<>> THEN item
    ELSE ApplyAssignments(ApplyAssignment(item, Head(assignments), upd),
                          Tail(assignments), upd)

\* if (setMatch) { setMatch[1].split(',').forEach(...) }
ApplySetMatch(item, setMatch, upd) ==
    IF setMatch # <<>>
    THEN ApplyAssignments(item, Split(setMatch[1], ","), upd)
    ELSE item

\* The assignments applied to an empty item.
UpdateExpressionAlone(item, upd) ==
    IF /\ Present(upd, "UpdateExpression")
       /\ upd.UpdateExpression # <<>>
       /\ Includes(upd.UpdateExpression, <<"S", "E", "T">>)
    THEN ApplySetMatch(<<>>, SetMatch(upd.UpdateExpression), upd)
    ELSE <<>>

\* "Simple SET operation parsing": the item after the update expression.
ApplyUpdateExpression(item, upd) ==
    IF /\ Present(upd, "UpdateExpression")
       /\ upd.UpdateExpression # <<>>
       /\ Includes(upd.UpdateExpression, <<"S", "E", "T">>)
    THEN ApplySetMatch(item, SetMatch(upd.UpdateExpression), upd)
    ELSE item

----------------------------------------------------------------------------
(* Handlers.  A handler maps the rows of the two tables and a request body *)
(* to the rows it leaves, the Response it returns (or the fact that it     *)
(* threw) and the number of Date.now() calls it made; reads[i] is the      *)
(* value of its i-th Date.now().  A Response body is the value the handler *)
(* hands to JSON.stringify, as a record of its fields (now / 1000 is kept   *)
(* as the fraction num / den).                                             *)

Returned(tables, items, status, body, nreads) ==
    [threw |-> FALSE, tables |-> tables, items |-> items,
     resp |-> [status |-> status, body |-> body], nreads |-> nreads]

Threw(tables, items, nreads) ==
    [threw |-> TRUE, tables |-> tables, items |-> items,
     resp |-> [status |-> 0, body |-> <<>>], nreads |-> nreads]

\* The row .get returns from a non-empty result.
Row(result) == CHOOSE r \in result : TRUE

RECURSIVE StringifyElements(_)
StringifyElements(arr) ==
    IF arr = <<>> THEN <<>>
    ELSE JSONstringify(arr[1]) \o (IF Len(arr) > 1 THEN <<",">> ELSE <<>>)
         \o StringifyElements(Tail(arr))

\* JSON.stringify of an array of objects
StringifyArray(arr) == <<"[">> \o StringifyElements(arr) \o <<"]">>

handleCreateTable(tables, items, body, reads) ==
    Returned(Transaction(tables,
                 Ran(createTable(tables, body.TableName,
                                 StringifyArray(body.KeySchema),
                                 StringifyArray(body.AttributeDefinitions),
                                 reads[1]))),
             items, 200,
             [TableDescription |->
                 [TableName |-> body.TableName, KeySchema |-> body.KeySchema,
                  AttributeDefinitions |-> body.AttributeDefinitions,
                  TableStatus |-> "ACTIVE",
                  CreationDateTime |-> [num |-> reads[1], den |-> 1000],
                  TableSizeBytes |-> 0, ItemCount |-> 0]],
             1)

\* A PutItem that refuses a table CreateTable has not recorded.
PutItemOfCreatedTable(tables, items, body, reads) ==
    IF \A r \in tables : r.table_name # body.TableName
    THEN Returned(tables, items, 400,
                  [__type |-> "ResourceNotFoundException",
                   message |-> "Requested resource not found"], 0)
    ELSE Returned(tables,
                  putItem(items, body.TableName, generateItemKey(body.Item),
                          JSONstringify(body.Item), reads[1], reads[1]),
                  200, <<>>, 1)

\* A request without Item throws in generateItemKey(undefined); one without
\* TableName throws in putItem.run, whose table_name column is NOT NULL, and
\* the transaction rolls back.
handlePutItem(tables, items, body, reads) ==
    IF ~Present(body, "Item") THEN Threw(tables, items, 0)
    ELSE IF ~Present(body, "TableName") THEN Threw(tables, items, 1)
    ELSE Returned(tables,
                  Transaction(items,
                      Ran(putItem(items, body.TableName,
                                  generateItemKey(body.Item),
                                  JSONstringify(body.Item), reads[1], reads[1]))),
                  200, <<>>, 1)

\* A GetItem that throws when no row is found.
GetOrThrow(tables, items, result) ==
    IF result = {} THEN Threw(tables, items, 0)
    ELSE Returned(tables, items, 200,
                  [Item |-> JSONparse(Row(result).item_data)], 0)

\* if (!result) {} else {Item: JSON.parse(result.item_data)}
GetResult(tables, items, result) ==
    IF result = {} THEN Returned(tables, items, 200, <<>>, 0)
    ELSE Returned(tables, items, 200,
                  [Item |-> JSONparse(Row(result).item_data)], 0)

handleGetItem(tables, items, body) ==
    IF ~Present(body, "Key") THEN Threw(tables, items, 0)
    ELSE GetResult(tables, items,
                   getItem(items, body.TableName, generateItemKey(body.Key)))

ResourceNotFound ==
    [__type |-> "ResourceNotFoundException",
     message |-> "Requested resource not found"]

\* const now = Date.now(); putItem.run(..., existing ? Date.now() : now, now):
\* updated_at is the first reading and created_at the second.
UpdateWrite(tables, items, body, itemKey, item, reads) ==
    Returned(tables,
             Transaction(items,
                 Ran(putItem(items, body.TableName, itemKey, JSONstringify(item),
                             reads[2], reads[1]))),
             200, [Attributes |-> item], 2)

\* An update that writes the Key as a new record when none exists.
UpdateOrInsert(tables, items, body, itemKey, existing, reads) ==
    UpdateWrite(tables, items, body, itemKey,
                ApplyUpdateExpression(IF existing = {} THEN body.Key
                                      ELSE JSONparse(Row(existing).item_data),
                                      body),
                reads)

UpdateExisting(tables, items, body, itemKey, existing, reads) ==
    IF existing = {} THEN Returned(tables, items, 400, ResourceNotFound, 0)
    ELSE UpdateWrite(tables, items, body, itemKey,
                     ApplyUpdateExpression(JSONparse(Row(existing).item_data), body),
                     reads)

handleUpdateItem(tables, items, body, reads) ==
    IF ~Present(body, "Key") THEN Threw(tables, items, 0)
    ELSE UpdateExisting(tables, items, body, generateItemKey(body.Key),
                        getItem(items, body.TableName, generateItemKey(body.Key)),
                        reads)

handleDeleteItem(tables, items, body) ==
    IF ~Present(body, "Key") THEN Threw(tables, items, 0)
    ELSE Returned(tables,
                  Transaction(items,
                      Ran(deleteItem(items, body.TableName,
                                     generateItemKey(body.Key)))),
                  200, <<>>, 0)

----------------------------------------------------------------------------
(* handleTransactWrite: the loop over TransactItems inside db.transaction. *)
(* A step maps the rows so far and the Date.now() calls so far (n) to the  *)
(* rows and calls after the sub-operation, or throws.                      *)

Stepped(db, n) == [threw |-> FALSE, db |-> db, n |-> n]

StepThrew(db, n) == [threw |-> TRUE, db |-> db, n |-> n]

TransactPut(items, put, reads, n) ==
    IF ~Present(put, "Item") THEN StepThrew(items, n)
    ELSE Stepped(putItem(items, put.TableName, generateItemKey(put.Item),
                         JSONstringify(put.Item), reads[n + 1], reads[n + 1]),
                 n + 1)

\* An Update that writes its Key as a new record when none exists.
TransactUpdateOrInsert(items, upd, itemKey, existing, reads, n) ==
    Stepped(putItem(items, upd.TableName, itemKey,
                    JSONstringify(ApplyUpdateExpression(
                        IF existing = {} THEN upd.Key
                        ELSE JSONparse(Row(existing).item_data), upd)),
                    reads[n + 2], reads[n + 1]),
            n + 2)

\* if (existing) { ...; putItem.run(..., Date.now(), now) }
TransactUpdateExisting(items, upd, itemKey, existing, reads, n) ==
    IF existing = {} THEN Stepped(items, n)
    ELSE Stepped(putItem(items, upd.TableName, itemKey,
                         JSONstringify(ApplyUpdateExpression(
                             JSONparse(Row(existing).item_data), upd)),
                         reads[n + 2], reads[n + 1]),
                 n + 2)

TransactUpdate(items, upd, reads, n) ==
    IF ~Present(upd, "Key") THEN StepThrew(items, n)
    ELSE TransactUpdateExisting(items, upd, generateItemKey(upd.Key),
             getItem(items, upd.TableName, generateItemKey(upd.Key)), reads, n)

TransactDelete(items, del, n) ==
    IF ~Present(del, "Key") THEN StepThrew(items, n)
    ELSE Stepped(deleteItem(items, del.TableName, generateItemKey(del.Key)), n)

\* One iteration of the for loop.
TransactStep(items, transactItem, reads, n) ==
    IF Present(transactItem, "Put")
    THEN TransactPut(items, transactItem.Put, reads, n)
    ELSE IF Present(transactItem, "Update")
    THEN TransactUpdate(items, transactItem.Update, reads, n)
    ELSE IF Present(transactItem, "Delete")
    THEN TransactDelete(items, transactItem.Delete, n)
    ELSE Stepped(items, n)

\* The loop run from the last sub-operation to the first.
RECURSIVE TransactLoopBackwards(_, _, _, _)
TransactLoopBackwards(items, transactItems, reads, n) ==
    IF transactItems = <<>> THEN Stepped(items, n)
    ELSE IF TransactStep(items, transactItems[Len(transactItems)], reads, n).threw
    THEN TransactStep(items, transactItems[Len(transactItems)], reads, n)
    ELSE TransactLoopBackwards(
             TransactStep(items, transactItems[Len(transactItems)], reads, n).db,
             SubSeq(transactItems, 1, Len(transactItems) - 1), reads,
             TransactStep(items, transactItems[Len(transactItems)], reads, n).n)

RECURSIVE TransactLoop(_, _, _, _)

\* After one iteration: the exception leaves the loop, or the loop goes on.
TransactNext(step, rest, reads) ==
    IF step.threw THEN step ELSE TransactLoop(step.db, rest, reads, step.n)

TransactLoop(items, transactItems, reads, n) ==
    IF transactItems = <<>> THEN Stepped(items, n)
    ELSE TransactNext(TransactStep(items, Head(transactItems), reads, n),
                      Tail(transactItems), reads)

\* transaction(): commit and the {} response, or rollback and the exception.
TransactOutcome(tables, items, outcome) ==
    IF outcome.threw
    THEN Threw(tables, Transaction(items, outcome), outcome.n)
    ELSE Returned(tables, Transaction(items, outcome), 200, <<>>, outcome.n)

handleTransactWrite(tables, items, body, reads) ==
    IF ~Present(body, "TransactItems") THEN Threw(tables, items, 0)
    ELSE TransactOutcome(tables, items,
                         TransactLoop(items, body.TransactItems, reads, 0))

----------------------------------------------------------------------------
(* Query and Scan                                                          *)

\* SQLite's LIKE folds the case of the ASCII letters: the code of a
\* character, that of the lower-case letter for an upper-case one.
Fold(c) == IF Code[c] >= 65 /\ Code[c] <= 90 THEN Code[c] + 32 ELSE Code[c]

\* s LIKE pattern: "%" matches any run of characters, "_" any one character.
RECURSIVE Like(_, _)
Like(s, pattern) ==
    IF pattern = <<>> THEN s = <<>>
    ELSE IF Head(pattern) = "%"
    THEN Like(s, Tail(pattern)) \/ (s # <<>> /\ Like(Tail(s), pattern))
    ELSE /\ s # <<>>
         /\ (Head(pattern) = "_" \/ Fold(Head(s)) = Fold(Head(pattern)))
         /\ Like(Tail(s), Tail(pattern))

\* A SELECT that leaves out the table_name condition.
queryItemsOfAnyTable(items, table_name, pattern) ==
    OrderByItemKey({r \in items : Like(r.item_key, pattern)})

\* SELECT ... WHERE table_name = ? AND item_key LIKE ? ORDER BY item_key
queryItems(items, table_name, pattern) ==
    OrderByItemKey({r \in items : /\ r.table_name = table_name
                                  /\ Like(r.item_key, pattern)})

\* \w
IsWord(c) ==
    \/ IsDigit(c) \/ c = "_"
    \/ (Code[c] >= 65 /\ Code[c] <= 90) \/ (Code[c] >= 97 /\ Code[c] <= 122)

\* \s* from s[i] on: the index after the blanks.
RECURSIVE SkipBlanks(_, _)
SkipBlanks(s, i) ==
    IF i <= Len(s) /\ s[i] = " " THEN SkipBlanks(s, i + 1) ELSE i

\* \w+ from s[i] on: the index after the word characters.
RECURSIVE WordEnd(_, _)
WordEnd(s, i) == IF i <= Len(s) /\ IsWord(s[i]) THEN WordEnd(s, i + 1) ELSE i

\* The capture group (\w+) after the colon at s[c].
WordFrom(s, c) == SubSeq(s, c + 1, WordEnd(s, c + 1) - 1)

\* :(\w+) at s[k]: k, or 0 when it does not match there.
ColonAt(s, k) ==
    IF k + 1 <= Len(s) /\ s[k] = ":" /\ IsWord(s[k + 1]) THEN k ELSE 0

\* =\s*:(\w+) at s[j]: the index of the colon, or 0.
EqualsAt(s, j) ==
    IF j <= Len(s) /\ s[j] = "=" THEN ColonAt(s, SkipBlanks(s, j + 1)) ELSE 0

\* /#p\s*=\s*:(\w+)/ at s[i]: the index of the colon, or 0.
PartitionColonAt(s, i) ==
    IF i + 1 <= Len(s) /\ s[i] = "#" /\ s[i + 1] = "p"
    THEN EqualsAt(s, SkipBlanks(s, i + 2))
    ELSE 0

PartitionStarts(s) == {i \in 1..Len(s) : PartitionColonAt(s, i) # 0}

\* KeyConditionExpression.match(/#p\s*=\s*:(\w+)/): the capture group as a
\* sequence of zero or one string.
PartitionKeyMatch(s) ==
    IF PartitionStarts(s) = {} THEN <<>>
    ELSE <<WordFrom(s, PartitionColonAt(s, First(PartitionStarts(s))))>>

KeyStarts(s) == {i \in 1..Len(s) : ColonAt(s, i) # 0}

\* KeyConditionExpression.match(/:(\w+)/)
KeyMatch(s) ==
    IF KeyStarts(s) = {} THEN <<>> ELSE <<WordFrom(s, First(KeyStarts(s)))>>

\* const keyValue = ExpressionAttributeValues[valueKey]; if (keyValue)
KeyValueGiven(body, valueKey) ==
    /\ Has(body.ExpressionAttributeValues, valueKey)
    /\ Truthy(Get(body.ExpressionAttributeValues, valueKey))

\* keyStr.slice(0, -1)
DropLast(s) == SubSeq(s, 1, Len(s) - 1)

\* `${JSON.stringify({$p: keyValue}).slice(0, -1)}%`
PartitionPattern(body, valueKey) ==
    IF KeyValueGiven(body, valueKey)
    THEN DropLast(JSONstringify(
             <<<<P, Get(body.ExpressionAttributeValues, valueKey)>>>>))
         \o <<"%">>
    ELSE <<"%">>

\* `%${JSON.stringify(keyValue)}%`
SimplePattern(body, valueKey) ==
    IF KeyValueGiven(body, valueKey)
    THEN <<"%">> \o StringifyValue(Get(body.ExpressionAttributeValues, valueKey))
         \o <<"%">>
    ELSE <<"%">>

\* "Fallback to original logic for simple keys"
FallbackPattern(body, keyMatch) ==
    IF keyMatch # <<>> THEN SimplePattern(body, <<":">> \o keyMatch[1])
    ELSE <<"%">>

PatternOf(body, partitionKeyMatch) ==
    IF partitionKeyMatch # <<>>
    THEN PartitionPattern(body, <<":">> \o partitionKeyMatch[1])
    ELSE FallbackPattern(body, KeyMatch(body.KeyConditionExpression))

\* searchPattern
SearchPattern(body) ==
    IF /\ Present(body, "KeyConditionExpression")
       /\ body.KeyConditionExpression # <<>>
       /\ Present(body, "ExpressionAttributeValues")
    THEN PatternOf(body, PartitionKeyMatch(body.KeyConditionExpression))
    ELSE <<"%">>

\* results.findIndex(row => row.item_key === startKey), counted from 1;
\* 0 when no row is found
FindIndex(results, startKey) ==
    IF \E i \in 1..Len(results) : results[i].item_key = startKey
    THEN First({i \in 1..Len(results) : results[i].item_key = startKey})
    ELSE 0

\* seq.slice(k)
SliceFrom(seq, k) == SubSeq(seq, k + 1, Len(seq))

\* results.map(row => JSON.parse(row.item_data))
ParseRows(results) == [i \in 1..Len(results) |-> JSONparse(results[i].item_data)]

\* Limit, or 0 (falsy) when the request has none
LimitOf(body) == IF Present(body, "Limit") THEN body.Limit ELSE 0

\* Limit && items.length >= Limit
QueryLimitReached(body, n) == LimitOf(body) # 0 /\ n >= LimitOf(body)

\* Limit && items.length > Limit
ScanLimitReached(body, n) == LimitOf(body) # 0 /\ n > LimitOf(body)

\* items.slice(0, Limit) when the limit applies
Page(items, body, hasMoreItems) ==
    IF hasMoreItems THEN SubSeq(items, 1, LimitOf(body)) ELSE items

\* The response object; LastEvaluatedKey only if (hasMoreItems && items.length > 0)
PageBody(items, scannedCount, hasMoreItems) ==
    IF hasMoreItems /\ Len(items) > 0
    THEN [Items |-> items, Count |-> Len(items), ScannedCount |-> scannedCount,
          LastEvaluatedKey |-> extractKeyFromItem(items[Len(items)])]
    ELSE [Items |-> items, Count |-> Len(items), ScannedCount |-> scannedCount]

\* A ScannedCount taken after the limit applied.
CountAfterLimit(afterStart, page) == Len(page)

\* Query: const scannedCount = items.length, taken before the limit applies
QueryScannedCount(afterStart, page) == Len(afterStart)

\* Scan: ScannedCount: items.length, taken after the limit applied
ScanScannedCount(afterStart, page) == Len(page)

\* The items left by ExclusiveStartKey: those after the row whose item_key is
\* startKey, or all of them when no row has it.
AfterStart(results, startKey) ==
    SliceFrom(ParseRows(results), FindIndex(results, startKey))

QueryStart(body, results) ==
    IF Present(body, "ExclusiveStartKey")
    THEN AfterStart(results, generateItemKey(body.ExclusiveStartKey))
    ELSE ParseRows(results)

QueryLimit(body, afterStart, hasMoreItems) ==
    PageBody(Page(afterStart, body, hasMoreItems),
             QueryScannedCount(afterStart, Page(afterStart, body, hasMoreItems)),
             hasMoreItems)

QueryResponse(body, afterStart) ==
    QueryLimit(body, afterStart, QueryLimitReached(body, Len(afterStart)))

handleQuery(tables, items, body) ==
    Returned(tables, items, 200,
             QueryResponse(body,
                 QueryStart(body, queryItems(items, body.TableName,
                                             SearchPattern(body)))),
             0)

ScanStart(body, results) ==
    IF Present(body, "ExclusiveStartKey")
    THEN AfterStart(results, JSONstringify(body.ExclusiveStartKey))
    ELSE ParseRows(results)

ScanLimit(body, afterStart, hasMoreItems) ==
    PageBody(Page(afterStart, body, hasMoreItems),
             ScanScannedCount(afterStart, Page(afterStart, body, hasMoreItems)),
             hasMoreItems)

ScanResponse(body, afterStart) ==
    ScanLimit(body, afterStart, ScanLimitReached(body, Len(afterStart)))

handleScan(tables, items, body) ==
    Returned(tables, items, 200,
             ScanResponse(body, ScanStart(body, scanItems(items, body.TableName))),
             0)

----------------------------------------------------------------------------
(* handleDynamoDBRequest: the dispatcher                                   *)

Target(op) == "DynamoDB_20120810." \o op

\* A default branch that accepts the request.
UnsupportedAccepted(tables, items, target) == Returned(tables, items, 200, <<>>, 0)

\* default: new Response(`Unsupported operation: ${target}`, {status: 400})
UnsupportedOperation(tables, items, target) ==
    Returned(tables, items, 400, [text |-> "Unsupported operation: " \o target], 0)

\* switch (target)
Dispatch(tables, items, target, body, reads) ==
    CASE target = Target("CreateTable") -> handleCreateTable(tables, items, body, reads)
      [] target = Target("PutItem") -> handlePutItem(tables, items, body, reads)
      [] target = Target("GetItem") -> handleGetItem(tables, items, body)
      [] target = Target("UpdateItem") -> handleUpdateItem(tables, items, body, reads)
      [] target = Target("DeleteItem") -> handleDeleteItem(tables, items, body)
      [] target = Target("Query") -> handleQuery(tables, items, body)
      [] target = Target("Scan") -> handleScan(tables, items, body)
      [] target = Target("TransactWriteItems") ->
             handleTransactWrite(tables, items, body, reads)
      [] OTHER -> UnsupportedOperation(tables, items, target)

\* catch (error): the 500 response
Caught(outcome) ==
    IF outcome.threw
    THEN [outcome EXCEPT !.threw = FALSE,
                         !.resp = [status |-> 500,
                                   body |-> [text |-> "Internal server error"]]]
    ELSE outcome

\* if (!target) ...; try { switch ... } catch ...
Serve(tables, items, target, body, reads) ==
    IF target = ""
    THEN Returned(tables, items, 400, [text |-> "Missing x-amz-target header"], 0)
    ELSE Caught(Dispatch(tables, items, target, body, reads))

\* The most Date.now() calls a request can make: one for CreateTable and
\* PutItem, two for UpdateItem and for each sub-operation of a transaction.
MostReads(target, body) ==
    CASE target \in {Target("CreateTable"), Target("PutItem")} -> 1
      [] target = Target("UpdateItem") -> 2
      [] target = Target("TransactWriteItems") ->
             IF Present(body, "TransactItems") THEN 2 * Len(body.TransactItems)
             ELSE 0
      [] OTHER -> 0

\* The values n successive Date.now() calls can return when the clock stays
\* at or below horizon: they never decrease.
ClockReads(n, horizon) ==
    {reads \in [1..n -> clock..horizon] :
        \A i \in 1..(n - 1) : reads[i] <= reads[i + 1]}

\* The state after a request was served with outcome.
Respond(target, body, reads, outcome) ==
    /\ dynamodb_tables' = outcome.tables
    /\ dynamodb_items' = outcome.items
    /\ clock' = IF outcome.nreads = 0 THEN clock ELSE reads[outcome.nreads]
    /\ request' = [target |-> target, body |-> body]
    /\ response' = outcome.resp
    /\ objects' = objects

\* The rows a handler reads as they were when its request arrived.
RowsOnArrival(entry, items) == entry.arrived

\* The rows the handler of a request in flight reads: those of the store
\* when it runs.  `await req.json()` is the only await of
\* handleDynamoDBRequest; the handlers are synchronous.
RowsRead(entry, items) == items

\* A request in flight served from the end of its await to its response.
Resumed(entry, horizon) ==
    \E reads \in ClockReads(MostReads(entry.req.target, entry.req.body), horizon) :
        Respond(entry.req.target, entry.req.body, reads,
                Serve(dynamodb_tables, RowsRead(entry, dynamodb_items),
                      entry.req.target, entry.req.body, reads))

\* One request served from start to end.
handleDynamoDBRequest(target, body, horizon) ==
    \E reads \in ClockReads(MostReads(target, body), horizon) :
        \E outcome \in {Serve(dynamodb_tables, dynamodb_items, target, body, reads)} :
            Respond(target, body, reads, outcome)

----------------------------------------------------------------------------
(* The object store (S3Handler).  A request body is a sequence of bytes;   *)
(* req.text() decodes it as UTF-8 into the string the data column keeps (a *)
(* sequence of code points), and new Response(data) encodes the string     *)
(* back.                                                                   *)

ReplacementCharacter == 65533

\* The number of bytes from position i on, at most need, that continue a
\* multi-byte sequence: the first within lower..upper, the others within
\* 128..191.
RECURSIVE Continuations(_, _, _, _, _)
Continuations(bytes, i, need, lower, upper) ==
    IF need = 0 \/ i > Len(bytes) \/ bytes[i] < lower \/ bytes[i] > upper THEN 0
    ELSE 1 + Continuations(bytes, i + 1, need - 1, 128, 191)

\* The code point of the sequence that starts with lead byte x at position i.
CodePoint(bytes, i, need) ==
    IF need = 1 THEN (bytes[i] - 192) * 64 + (bytes[i + 1] - 128)
    ELSE IF need = 2
    THEN (bytes[i] - 224) * 4096 + (bytes[i + 1] - 128) * 64 + (bytes[i + 2] - 128)
    ELSE (bytes[i] - 240) * 262144 + (bytes[i + 1] - 128) * 4096
            + (bytes[i + 2] - 128) * 64 + (bytes[i + 3] - 128)

Needed(x) ==
    IF x >= 194 /\ x <= 223 THEN 1
    ELSE IF x >= 224 /\ x <= 239 THEN 2
    ELSE IF x >= 240 /\ x <= 244 THEN 3
    ELSE 0

Lower(x) == IF x = 224 THEN 160 ELSE IF x = 240 THEN 144 ELSE 128

Upper(x) == IF x = 237 THEN 159 ELSE IF x = 244 THEN 143 ELSE 191

\* UTF-8 decoding with replacement: a byte that starts or continues no
\* sequence becomes U+FFFD, and decoding goes on at the byte that broke the
\* sequence.
RECURSIVE DecodeFrom(_, _, _)
DecodeSequence(bytes, i, out, need, found) ==
    IF found = need
    THEN DecodeFrom(bytes, i + need + 1, Append(out, CodePoint(bytes, i, need)))
    ELSE DecodeFrom(bytes, i + found + 1, Append(out, ReplacementCharacter))

DecodeFrom(bytes, i, out) ==
    IF i > Len(bytes) THEN out
    ELSE IF bytes[i] <= 127 THEN DecodeFrom(bytes, i + 1, Append(out, bytes[i]))
    ELSE IF Needed(bytes[i]) = 0
    THEN DecodeFrom(bytes, i + 1, Append(out, ReplacementCharacter))
    ELSE DecodeSequence(bytes, i, out, Needed(bytes[i]),
             Continuations(bytes, i + 1, Needed(bytes[i]),
                           Lower(bytes[i]), Upper(bytes[i])))

HasBOM(bytes) ==
    Len(bytes) >= 3 /\ bytes[1] = 239 /\ bytes[2] = 187 /\ bytes[3] = 191

\* req.text(): UTF-8 decode, a leading byte order mark dropped.
text(bytes) == DecodeFrom(bytes, IF HasBOM(bytes) THEN 4 ELSE 1, <<>>)

EncodeCodePoint(c) ==
    IF c < 128 THEN <<c>>
    ELSE IF c < 2048 THEN <<192 + (c \div 64), 128 + (c % 64)>>
    ELSE IF c < 65536
    THEN <<224 + (c \div 4096), 128 + ((c \div 64) % 64), 128 + (c % 64)>>
    ELSE <<240 + (c \div 262144), 128 + ((c \div 4096) % 64),
           128 + ((c \div 64) % 64), 128 + (c % 64)>>

\* The bytes of a string, as new Response(string) and hash.update(string)
\* take them.
RECURSIVE Utf8Encode(_)
Utf8Encode(data) ==
    IF data = <<>> THEN <<>>
    ELSE EncodeCodePoint(Head(data)) \o Utf8Encode(Tail(data))

HexDigit == <<"0", "1", "2", "3", "4", "5", "6", "7",
              "8", "9", "a", "b", "c", "d", "e", "f">>

\* crypto.createHash("md5").update(data).digest("hex"): hexadecimal digits
\* computed from the bytes of the data and from nothing else.  The model
\* keeps that and shortens the digest to one byte.
RECURSIVE Checksum(_, _)
Checksum(bytes, h) ==
    IF bytes = <<>> THEN h
    ELSE Checksum(Tail(bytes), (h * 31 + Head(bytes) + 1) % 256)

md5(data) ==
    <<HexDigit[(Checksum(Utf8Encode(data), 7) \div 16) + 1],
      HexDigit[(Checksum(Utf8Encode(data), 7) % 16) + 1]>>

\* INSERT OR REPLACE INTO objects: key is the primary key.
insertObject(rows, key, data, content_type, last_modified, etag) ==
    {r \in rows : r.key # key}
        \cup {[key |-> key, data |-> data, content_type |-> content_type,
               last_modified |-> last_modified, etag |-> etag]}

\* SELECT ... FROM objects WHERE key = ?
getObject(rows, key) == {r \in rows : r.key = key}

\* path.slice(1)
ObjectKey(path) == SubSeq(path, 2, Len(path))

\* process.env of the server: AWS_ACCESS_KEY_ID, and AWS_REGION left to
\* its default.  AWS_SECRET_ACCESS_KEY is set as well.
AccessKeyId == <<"K">>

Region == <<"u", "s", "-", "e", "a", "s", "t", "-", "1">>

\* A number that may be NaN.
NaN == [nan |-> TRUE, n |-> 0]

Number(n) == [nan |-> FALSE, n |-> n]

IsDecimal(c) == \E i \in 1..10 : DigitChar[i] = c

Decimal(c) == (CHOOSE i \in 1..10 : DigitChar[i] = c) - 1

\* The number the decimal digits of s write.
RECURSIVE DecimalValue(_)
DecimalValue(s) ==
    IF s = <<>> THEN 0
    ELSE 10 * DecimalValue(SubSeq(s, 1, Len(s) - 1)) + Decimal(s[Len(s)])

\* The longest prefix of s made of decimal digits.
RECURSIVE LeadingDigits(_)
LeadingDigits(s) ==
    IF s = <<>> \/ ~IsDecimal(s[1]) THEN <<>>
    ELSE <<s[1]>> \o LeadingDigits(Tail(s))

\* parseInt(s) of a string without blanks or sign at its head
parseInt(s) ==
    IF LeadingDigits(s) = <<>> THEN NaN ELSE Number(DecimalValue(LeadingDigits(s)))

\* The string is \d{4}\d{2}\d{2}T\d{2}\d{2}\d{2}Z.
IsStamp(date) ==
    /\ Len(date) = 16
    /\ \A i \in (1..8) \cup (10..15) : IsDecimal(date[i])
    /\ date[9] = "T"
    /\ date[16] = "Z"

\* The days from 1970-01-01 to the day y-m-d of the Gregorian calendar.
DaysFromCivil(y, m, d) ==
    (((y - (IF m <= 2 THEN 1 ELSE 0)) \div 400) * 146097)
    + (((y - (IF m <= 2 THEN 1 ELSE 0)) % 400) * 365)
    + (((y - (IF m <= 2 THEN 1 ELSE 0)) % 400) \div 4)
    - (((y - (IF m <= 2 THEN 1 ELSE 0)) % 400) \div 100)
    + ((153 * (m + (IF m > 2 THEN -3 ELSE 9)) + 2) \div 5) + d - 1
    - 719468

\* The fields of a stamp are those of a date and a time of day.
InCalendar(date) ==
    /\ DecimalValue(SubSeq(date, 5, 6)) \in 1..12
    /\ DecimalValue(SubSeq(date, 7, 8)) \in 1..31
    /\ DecimalValue(SubSeq(date, 10, 11)) <= 23
    /\ DecimalValue(SubSeq(date, 12, 13)) <= 59
    /\ DecimalValue(SubSeq(date, 14, 15)) <= 59

\* Math.floor(new Date(date.replace(stamp, "$1-$2-$3T$4:$5:$6Z")).getTime()
\* / 1000): the seconds since the epoch of a stamp, NaN for a string that
\* is none.
requestTime(date) ==
    IF ~IsStamp(date) THEN NaN
    ELSE IF ~InCalendar(date) THEN NaN
    ELSE Number(DaysFromCivil(DecimalValue(SubSeq(date, 1, 4)),
                              DecimalValue(SubSeq(date, 5, 6)),
                              DecimalValue(SubSeq(date, 7, 8))) * 86400
                + DecimalValue(SubSeq(date, 10, 11)) * 3600
                + DecimalValue(SubSeq(date, 12, 13)) * 60
                + DecimalValue(SubSeq(date, 14, 15)))

\* requestTime + parseInt(expires)
expirationTime(date, expires) ==
    IF requestTime(date).nan \/ parseInt(expires).nan THEN NaN
    ELSE Number(requestTime(date).n + parseInt(expires).n)

\* `${accessKeyId}/${date.slice(0, 8)}/${region}/s3/aws4_request`
expectedCredential(date) ==
    AccessKeyId \o <<"/">> \o SubSeq(date, 1, IF Len(date) < 8 THEN Len(date) ELSE 8)
    \o <<"/">> \o Region
    \o <<"/", "s", "3", "/", "a", "w", "s", "4", "_", "r", "e", "q", "u", "e", "s", "t">>

\* url.searchParams.get(name) is null or "".
Falsy(query, name) == ~Present(query, name) \/ query[name] = <<>>

AWS4 == <<"A", "W", "S", "4", "-", "H", "M", "A", "C", "-", "S", "H", "A", "2", "5", "6">>

\* A verification that accepts one signature value only.
verifySignatureValue(query, now) ==
    /\ \A name \in {"Algorithm", "Credential", "Date", "Expires",
                    "SignedHeaders", "Signature"} : ~Falsy(query, name)
    /\ query.Algorithm = AWS4
    /\ ~(/\ ~expirationTime(query.Date, query.Expires).nan
         /\ now \div 1000 > expirationTime(query.Date, query.Expires).n)
    /\ query.Credential = expectedCredential(query.Date)
    /\ query.Signature = <<"s", "1">>

\* verifySignature: the six X-Amz- parameters of the URL are there, the
\* algorithm is AWS4-HMAC-SHA256, the current time is not after the
\* expiration time (a comparison with NaN is false) and the credential is
\* the expected one.
verifySignature(query, now) ==
    /\ \A name \in {"Algorithm", "Credential", "Date", "Expires",
                    "SignedHeaders", "Signature"} : ~Falsy(query, name)
    /\ query.Algorithm = AWS4
    /\ ~(/\ ~expirationTime(query.Date, query.Expires).nan
         /\ now \div 1000 > expirationTime(query.Date, query.Expires).n)
    /\ query.Credential = expectedCredential(query.Date)

\* The request with the outcome of `if (url.searchParams.has(
\* "X-Amz-Algorithm")) { if (!this.verifySignature(req, url)) ...`.
Verified(req, now) ==
    [signature |->
         IF ~Present(req.query, "Algorithm") THEN "unsigned"
         ELSE IF verifySignature(req.query, now) THEN "verified"
         ELSE "rejected"] @@ req

\* The request carries X-Amz-Algorithm and verifySignature returns false.
SignatureRejected(req) == req.signature = "rejected"

ObjectResponse(object) ==
    [status |-> 200,
     body |-> [bytes |-> Utf8Encode(object.data)],
     headers |-> [ContentType |-> object.content_type,
                  LastModified |-> object.last_modified \div 1000,
                  ETag |-> Quoted(object.etag)]]

\* A response that reports a missing object as an empty one.
EmptyObject ==
    [status |-> 200, body |-> [bytes |-> <<>>], headers |-> <<>>]

NoSuchKey ==
    [status |-> 404, body |-> [text |-> "NoSuchKey"],
     headers |-> [ContentType |-> "application/xml"]]

TextResponse(status, message) ==
    [status |-> status, body |-> [text |-> message], headers |-> <<>>]

\* handleGetObject: the response; no statement but the SELECT runs.
handleGetObject(rows, req) ==
    IF ObjectKey(req.path) = <<>> THEN TextResponse(400, "Missing object key")
    ELSE IF SignatureRejected(req) THEN TextResponse(403, "Invalid signature")
    ELSE IF getObject(rows, ObjectKey(req.path)) = {} THEN NoSuchKey
    ELSE ObjectResponse(CHOOSE r \in getObject(rows, ObjectKey(req.path)) : TRUE)

\* req.headers.get("content-type") || "application/octet-stream"
ContentTypeOf(req) ==
    IF Present(req, "contentType") /\ req.contentType # ""
    THEN req.contentType
    ELSE "application/octet-stream"

PutStored(rows, req, data, now) ==
    insertObject(rows, ObjectKey(req.path), data, ContentTypeOf(req), now,
                 md5(data))

PutResponse(data) ==
    [status |-> 200, body |-> [text |-> ""],
     headers |-> [ETag |-> Quoted(md5(data))]]

\* handlePutObject: the rows of objects after the call and the response.
handlePutObject(rows, req, now) ==
    IF ObjectKey(req.path) = <<>>
    THEN [objects |-> rows, resp |-> TextResponse(400, "Missing object key")]
    ELSE IF SignatureRejected(req)
    THEN [objects |-> rows, resp |-> TextResponse(403, "Invalid signature")]
    ELSE [objects |-> PutStored(rows, req, text(req.body), now),
          resp |-> PutResponse(text(req.body))]

----------------------------------------------------------------------------
(* Requests                                                                *)

V == <<"$", "v">>

\* The objects with one member name, or none, for each value of vals.
Opt(name, vals) == {<<>>} \cup {<<<<name, v>>>> : v \in vals}

\* Key descriptors: composite ($p, $s) with a string or the number 0 as
\* partition value, with or without an id attribute beside them, and the
\* simple key (id).
Keys ==
    {<<<<P, p>>, <<S, Str(<<"1">>)>>>> \o i :
        p \in {Str(<<"a">>), Num(0)}, i \in Opt(ID, {Str(<<"i">>)})}
    \cup {<<<<ID, Str(<<"i">>)>>>>}

\* Items: a key descriptor and a version attribute $v.
Items == {k \o <<<<V, Num(v)>>>> : k \in Keys, v \in {1, 2}}

TableNames == {"t1"}

\* The condition expressions of the test client.
NotExists ==
    [ConditionExpression |-> "attribute_not_exists(#p)",
     ExpressionAttributeNames |-> <<<<<<"#", "p">>, Str(P)>>>>]

ExistsAndVersion ==
    [ConditionExpression |-> "attribute_exists(#p) AND #v = :expectedVersion",
     ExpressionAttributeNames |->
         <<<<<<"#", "p">>, Str(P)>>, <<<<"#", "v">>, Str(V)>>>>,
     ExpressionAttributeValues |->
         <<<<<<":", "e", "x", "p", "e", "c", "t", "e", "d", "V", "e", "r", "s", "i", "o", "n">>, Num(1)>>>>]

Conditions == {NotExists, ExistsAndVersion}

\* The items of the conditional PutItem requests.
ConditionalItems == {<<<<P, Str(<<"a">>)>>, <<S, Str(<<"1">>)>>, <<V, Num(v)>>>> : v \in {1, 2}}

\* PutItem requests, plain and conditional.
PutBodies ==
    {[TableName |-> t, Item |-> i] : t \in TableNames, i \in Items}
    \cup {[TableName |-> t, Item |-> i] @@ c :
             t \in TableNames, i \in ConditionalItems, c \in Conditions}

\* GetItem and DeleteItem requests.
KeyBodies == {[TableName |-> t, Key |-> k] : t \in TableNames, k \in Keys}

\* "SET #v = :v"
SetVersion == <<"S", "E", "T", " ", "#", "v", " ", "=", " ", ":", "v">>

UpdateBodies ==
    {[TableName |-> t, Key |-> k, UpdateExpression |-> SetVersion,
      ExpressionAttributeNames |-> <<<<<<"#", "v">>, Str(V)>>>>,
      ExpressionAttributeValues |-> <<<<<<":", "v">>, Num(2)>>>>] :
        t \in TableNames, k \in Keys}

AttributeName == <<"A", "t", "t", "r", "i", "b", "u", "t", "e", "N", "a", "m", "e">>
KeyType == <<"K", "e", "y", "T", "y", "p", "e">>
AttributeType == <<"A", "t", "t", "r", "i", "b", "u", "t", "e", "T", "y", "p", "e">>
HASH == Str(<<"H", "A", "S", "H">>)
RANGE == Str(<<"R", "A", "N", "G", "E">>)

\* The CreateTable request of the test client.
CreateTableBodies ==
    {[TableName |-> t,
      KeySchema |-> << <<<<AttributeName, Str(P)>>, <<KeyType, HASH>>>>,
                       <<<<AttributeName, Str(S)>>, <<KeyType, RANGE>>>> >>,
      AttributeDefinitions |->
          << <<<<AttributeName, Str(P)>>, <<AttributeType, Str(<<"S">>)>>>>,
             <<<<AttributeName, Str(S)>>, <<AttributeType, Str(<<"S">>)>>>> >>] :
        t \in TableNames}

\* "#p = :pk"
PartitionEquals == <<"#", "p", " ", "=", " ", ":", "p", "k">>

\* A Limit, or none.
Limits(max) == {<<>>} \cup {[Limit |-> l] : l \in 1..max}

QueryBodies(max) ==
    {[TableName |-> t, KeyConditionExpression |-> PartitionEquals,
      ExpressionAttributeNames |-> <<<<<<"#", "p">>, Str(P)>>>>,
      ExpressionAttributeValues |-> <<<<<<":", "p", "k">>, pk>>>>] @@ l :
        t \in TableNames, pk \in {Str(<<"a">>), Num(0)}, l \in Limits(max)}

ScanBodies(max) == {[TableName |-> t] @@ l : t \in TableNames, l \in Limits(max)}

\* The item and the key of the transactional requests.
TxItem == <<<<P, Str(<<"a">>)>>, <<S, Str(<<"1">>)>>, <<V, Num(1)>>>>

TxKey == <<<<P, Str(<<"a">>)>>, <<S, Str(<<"1">>)>>>>

\* Sub-operations: Put (plain or conditional), Update, Delete, a Put of an
\* item of another key, and a Put that lacks its Item.
TransactItemsOf(t) ==
    {[Put |-> [TableName |-> t, Item |-> TxItem]],
     [Put |-> [TableName |-> t, Item |-> TxItem] @@ NotExists],
     [Put |-> [TableName |-> t, Item |-> <<<<ID, Str(<<"i">>)>>>>]],
     [Delete |-> [TableName |-> t, Key |-> TxKey]],
     [Put |-> [TableName |-> t]]}
    \cup {[Update |-> u] : u \in {b \in UpdateBodies : b.TableName = t /\ b.Key = TxKey}}

\* The largest number of sub-operations in a TransactWriteItems request.
MaxBatch == 2

\* The sequences of one to max elements of ops.
Batches(ops, max) == UNION {[1..n -> ops] : n \in 1..max}

TransactBodies ==
    {[TransactItems |-> b] :
        b \in UNION {Batches(TransactItemsOf(t), MaxBatch) : t \in TableNames}}

\* The PutItem requests that fill the store before a transaction.
TransactPutBodies ==
    {[TableName |-> t, Item |-> i] :
        t \in TableNames,
        i \in {TxItem, <<<<P, Str(<<"a">>)>>, <<S, Str(<<"1">>)>>, <<V, Num(2)>>>>}}

\* The most rows a paged table holds.
MaxPageRows == 5

\* The items of the paged table: five of partition "a", one of them also
\* with an id attribute, and one of partition "A".
PageItems ==
    {<<<<P, Str(<<"a">>)>>, <<S, Str(<<d>>)>>>> : d \in {"1", "2", "3", "4", "5"}}
    \cup {<<<<P, Str(<<"a">>)>>, <<S, Str(<<"1">>)>>, <<ID, Str(<<"i">>)>>>>,
          <<<<P, Str(<<"A">>)>>, <<S, Str(<<"1">>)>>>>}

PagePutBodies == {[TableName |-> t, Item |-> i] : t \in TableNames, i \in PageItems}

\* The largest Limit of a Query or Scan.
MaxLimit == 2

\* The first request of a chain: a Query of partition "a", or a Scan.
PageBodies(op) ==
    IF op = "Query"
    THEN {b \in QueryBodies(MaxLimit) :
             Get(b.ExpressionAttributeValues, <<":", "p", "k">>) = Str(<<"a">>)}
    ELSE ScanBodies(MaxLimit)

\* The most calls of one chain of pages.
MaxCalls == 5

\* The tables of SpecTables.
BothTables == {"t1", "t2"}

\* The CreateTable requests of the two test clients: the composite schema
\* ($p HASH, $s RANGE) and the simple one (id HASH), for each table.
TablesCreateBodies ==
    {[b EXCEPT !.TableName = t] : b \in CreateTableBodies, t \in BothTables}
    \cup {[TableName |-> t,
           KeySchema |-> << <<<<AttributeName, Str(ID)>>, <<KeyType, HASH>>>> >>,
           AttributeDefinitions |->
               << <<<<AttributeName, Str(ID)>>, <<AttributeType, Str(<<"S">>)>>>> >>] :
              t \in BothTables}

\* The ids of the items of a simple-key table.
Ids == {Str(<<"i">>), Str(<<"I">>)}

TablesPutBodies ==
    {[TableName |-> t, Item |-> <<<<ID, id>>>>] : t \in BothTables, id \in Ids}

\* "id = :id"
IdEquals == <<"i", "d", " ", "=", " ", ":", "i", "d">>

\* The Query of the simple-key test client.
TablesQueryBodies ==
    {[TableName |-> t, KeyConditionExpression |-> IdEquals,
      ExpressionAttributeValues |-> <<<<<<":", "i", "d">>, id>>>>] :
        t \in BothTables, id \in Ids}

\* Items and key descriptors without $p, $s and id.
Keyless == {<<>>} \cup {<<<<V, Num(v)>>>> : v \in {1, 2}}

\* PutItem of keyless items and of one item with a key, GetItem by keyless
\* key descriptors.
InputPutBodies ==
    {[TableName |-> t, Item |-> i] : t \in BothTables, i \in Keyless \cup {TxItem}}

InputKeyBodies == {[TableName |-> t, Key |-> k] : t \in BothTables, k \in Keyless}

\* Query requests whose key condition cannot be resolved: no
\* KeyConditionExpression, no ExpressionAttributeValues, or a value map that
\* lacks the placeholder of the expression.
UnresolvedQueryBodies ==
    {[TableName |-> t] @@ c :
        t \in BothTables,
        c \in {<<>>,
               [ExpressionAttributeValues |-> <<<<<<":", "p", "k">>, Str(<<"a">>)>>>>],
               [KeyConditionExpression |-> PartitionEquals],
               [KeyConditionExpression |-> PartitionEquals,
                ExpressionAttributeValues |-> <<>>],
               [KeyConditionExpression |-> IdEquals,
                ExpressionAttributeValues |-> <<<<<<":", "p", "k">>, Str(<<"a">>)>>>>]}}

\* Requests of supported operations that lack a required field.
IncompleteRequests ==
    {[target |-> Target("PutItem"), body |-> [TableName |-> "t1"]],
     [target |-> Target("PutItem"), body |-> [Item |-> TxItem]],
     [target |-> Target("UpdateItem"),
      body |-> [TableName |-> "t1", UpdateExpression |-> SetVersion]],
     [target |-> Target("DeleteItem"), body |-> [TableName |-> "t1"]],
     [target |-> Target("GetItem"), body |-> [TableName |-> "t1"]]}

\* Update expressions are built from their clauses: an assignment
\* target = source, or the text of a malformed clause.
Assignment(target, source) == [target |-> target, source |-> source]

MalformedClause(t) == [text |-> t]

ClauseText(c) ==
    IF Present(c, "text") THEN c.text
    ELSE c.target \o <<" ", "=", " ">> \o c.source

RECURSIVE Joined(_)
Joined(clauses) ==
    IF Len(clauses) = 1 THEN ClauseText(clauses[1])
    ELSE ClauseText(clauses[1]) \o <<",", " ">> \o Joined(Tail(clauses))

\* "SET clause, clause, ..."
SetText(clauses) == <<"S", "E", "T", " ">> \o Joined(clauses)

AliasV == <<"#", "v">>
AliasN == <<"#", "n">>
X == <<"x">>
ValueV == <<":", "v">>
ValueA == <<":", "a">>
ValueB == <<":", "b">>

\* SET #v = :v;  SET #v = :a, #v = :b;  SET x = :a, #n = :b;
\* SET #v = :b, x, n = :a = :b, x = :a
ClauseLists ==
    {<<Assignment(AliasV, ValueV)>>,
     <<Assignment(AliasV, ValueA), Assignment(AliasV, ValueB)>>,
     <<Assignment(X, ValueA), Assignment(AliasN, ValueB)>>,
     <<Assignment(AliasV, ValueB), MalformedClause(X),
       MalformedClause(<<"n", " ", "=", " ", ":", "a", " ", "=", " ", ":", "b">>),
       Assignment(X, ValueA)>>}

\* Expressions without a SET clause: "#v = :v" and "SET".
NoSetTexts == {<<"#", "v", " ", "=", " ", ":", "v">>, <<"S", "E", "T">>}

UpdateExpressions ==
    {<<>>} \cup {[UpdateExpression |-> e] :
                    e \in NoSetTexts \cup {SetText(c) : c \in ClauseLists}}

\* No name aliases, or #v for $v (#n has no entry).
NameMaps == {<<>>, [ExpressionAttributeNames |-> <<<<AliasV, Str(V)>>>>]}

\* No values; values for :v, :a and :b, :v and :b truthy or falsy; a value
\* for :a alone.
ValueMaps ==
    {<<>>, [ExpressionAttributeValues |-> <<<<ValueA, Num(1)>>>>]}
    \cup {[ExpressionAttributeValues |->
              <<<<ValueV, x>>, <<ValueA, Num(1)>>, <<ValueB, x>>>>] :
             x \in {Num(2), Num(0), Str(<<>>), Bool(FALSE)}}

\* The clause lists whose text is the expression of the update.
ClausesOf(upd) ==
    {c \in ClauseLists :
        Present(upd, "UpdateExpression") /\ upd.UpdateExpression = SetText(c)}

\* UpdateItem requests for the key of TxItem.
SetBodies ==
    {[TableName |-> "t1", Key |-> TxKey] @@ e @@ n @@ v :
        e \in UpdateExpressions, n \in NameMaps, v \in ValueMaps}

\* Requests by id for the two tables: GetItem and DeleteItem, UpdateItem
\* with "SET x = :a", Scan, and transactions of one Put or one Update.
TablesKeyBodies ==
    {[TableName |-> t, Key |-> <<<<ID, id>>>>] : t \in BothTables, id \in Ids}

TablesUpdateBodies ==
    {k @@ [UpdateExpression |-> SetText(<<Assignment(X, ValueA)>>),
           ExpressionAttributeValues |-> <<<<ValueA, Num(1)>>>>] :
        k \in TablesKeyBodies}

TablesScanBodies == {[TableName |-> t] : t \in BothTables}

TablesTransactBodies ==
    {[TransactItems |-> <<[Put |-> b]>>] : b \in TablesPutBodies}
    \cup {[TransactItems |-> <<[Update |-> b]>>] : b \in TablesUpdateBodies}

\* An item with a composite key and an item with the simple key.
KeyedItems == {TxItem, <<<<ID, Str(<<"1">>)>>>>}

\* The keys of KeyedItems.
KeysOfItems == {TxKey, <<<<ID, Str(<<"1">>)>>>>}

AliasS == <<"#", "s">>

\* SET $p = :a;  SET #s = :a;  SET id = :a
KeyClauses ==
    {<<Assignment(P, ValueA)>>, <<Assignment(AliasS, ValueA)>>,
     <<Assignment(ID, ValueA)>>}

\* Updates whose SET clause targets a key attribute, with :a = "2" and
\* #s for $s.
KeyUpdateBodies ==
    {[TableName |-> "t1", Key |-> k, UpdateExpression |-> SetText(c),
      ExpressionAttributeNames |-> <<<<AliasS, Str(S)>>>>,
      ExpressionAttributeValues |-> <<<<ValueA, Str(<<"2">>)>>>>] :
        k \in KeysOfItems, c \in KeyClauses}

\* The most requests in flight at a time.
MaxInFlight == 2


\* The two items one transaction puts.
PairItems == {<<<<P, Str(<<"b">>)>>, <<S, Str(<<d>>)>>>> : d \in {"1", "2"}}

PairTransaction ==
    [TransactItems |->
        <<[Put |-> [TableName |-> "t1",
                    Item |-> <<<<P, Str(<<"b">>)>>, <<S, Str(<<"1">>)>>>>]],
          [Put |-> [TableName |-> "t1",
                    Item |-> <<<<P, Str(<<"b">>)>>, <<S, Str(<<"2">>)>>>>]]>>]

\* "SET x = :a" with :a = 1 and "SET #v = :v" with :v = 2, for the key of
\* TxItem.
SetXBody ==
    [TableName |-> "t1", Key |-> TxKey,
     UpdateExpression |-> SetText(<<Assignment(X, ValueA)>>),
     ExpressionAttributeValues |-> <<<<ValueA, Num(1)>>>>]

SetVBody ==
    [TableName |-> "t1", Key |-> TxKey,
     UpdateExpression |-> SetText(<<Assignment(AliasV, ValueV)>>),
     ExpressionAttributeNames |-> <<<<AliasV, Str(V)>>>>,
     ExpressionAttributeValues |-> <<<<ValueV, Num(2)>>>>]

\* Requests that clients send without waiting for one another: two
\* UpdateItem of one key that set different attributes, a transaction of
\* two Puts, and a GetItem, a Query and a Scan that can see its items.
ConcurrentRequests ==
    {[target |-> Target("UpdateItem"), body |-> SetXBody],
     [target |-> Target("UpdateItem"), body |-> SetVBody],
     [target |-> Target("TransactWriteItems"), body |-> PairTransaction],
     [target |-> Target("GetItem"),
      body |-> [TableName |-> "t1",
                Key |-> <<<<P, Str(<<"b">>)>>, <<S, Str(<<"2">>)>>>>]],
     [target |-> Target("Query"),
      body |-> [TableName |-> "t1", KeyConditionExpression |-> PartitionEquals,
                ExpressionAttributeNames |-> <<<<<<"#", "p">>, Str(P)>>>>,
                ExpressionAttributeValues |-> <<<<<<":", "p", "k">>, Str(<<"b">>)>>>>]],
     [target |-> Target("Scan"), body |-> [TableName |-> "t1"]]}

\* Object-store requests: the paths of two keys and the path without a
\* key; bodies that are empty, ASCII text ("Hi"), a two-byte character, a
\* byte that is no UTF-8 (255), and text after a byte order mark.
Paths == {<<"/">>, <<"/", "a">>, <<"/", "b">>}

Bodies == {<<>>, <<72, 105>>, <<195, 169>>, <<255>>, <<239, 187, 191, 72>>}

ContentTypes == {"text/plain"}

Signatures == {"unsigned", "verified", "rejected"}

PutObjectRequests ==
    {[method |-> "PUT", path |-> p, signature |-> g, body |-> b] @@ c :
        p \in Paths, g \in Signatures, b \in Bodies,
        c \in {<<>>} \cup {[contentType |-> t] : t \in ContentTypes}}

GetObjectRequests ==
    {[method |-> "GET", path |-> p, signature |-> g] :
        p \in Paths, g \in Signatures}

----------------------------------------------------------------------------
(* Specifications: requests arrive one at a time and each is served to its *)
(* end.  Spec serves the single-item requests, SpecTx transactions over a  *)
(* store that PutItem filled, SpecPage a client that follows               *)
(* LastEvaluatedKey over a table that nothing writes meanwhile.  In these  *)
(* three the requests of a run fall within one reading of the clock; in    *)
(* SpecClock the clock advances while the writes to one key are served.    *)
(* SpecTables serves two tables of simple-key (id) items, SpecInput the    *)
(* requests at the edge of the input, SpecUpdate the update expressions,   *)
(* SpecConcurrent requests in flight at the same time, SpecKey updates of  *)
(* key attributes, SpecChain a client that follows every page, SpecObjects *)
(* the object store, SpecPresigned presigned URLs.                         *)

\* The most rows dynamodb_items holds in Spec.
MaxRows == 2

Idle == [active |-> FALSE]

\* No request has arrived.
NoneInFlight == [waiting |-> {}, done |-> {}]

Init ==
    /\ dynamodb_tables = {}
    /\ dynamodb_items = {}
    /\ clock = 0
    /\ request = [target |-> "", body |-> <<>>]
    /\ response = [status |-> 0, body |-> <<>>]
    /\ pager = Idle
    /\ objects = {}
    /\ inflight = NoneInFlight

CreateTable ==
    /\ \E body \in CreateTableBodies :
           handleDynamoDBRequest(Target("CreateTable"), body, clock)
    /\ UNCHANGED <<pager, inflight>>

PutItem ==
    /\ \E body \in PutBodies :
           handleDynamoDBRequest(Target("PutItem"), body, clock)
    /\ Cardinality(dynamodb_items') <= MaxRows
    /\ UNCHANGED <<pager, inflight>>

GetItem ==
    /\ \E body \in KeyBodies :
           handleDynamoDBRequest(Target("GetItem"), body, clock)
    /\ UNCHANGED <<pager, inflight>>

UpdateItem ==
    /\ \E body \in UpdateBodies :
           handleDynamoDBRequest(Target("UpdateItem"), body, clock)
    /\ UNCHANGED <<pager, inflight>>

DeleteItem ==
    /\ \E body \in KeyBodies :
           handleDynamoDBRequest(Target("DeleteItem"), body, clock)
    /\ UNCHANGED <<pager, inflight>>

Query ==
    /\ \E body \in QueryBodies(MaxLimit) :
           handleDynamoDBRequest(Target("Query"), body, clock)
    /\ UNCHANGED <<pager, inflight>>

Scan ==
    /\ \E body \in ScanBodies(MaxLimit) :
           handleDynamoDBRequest(Target("Scan"), body, clock)
    /\ UNCHANGED <<pager, inflight>>

\* A request without x-amz-target, or with a target the switch does not know.
Unsupported ==
    /\ \E target \in {"", Target("DescribeTable")} :
           handleDynamoDBRequest(target, <<>>, clock)
    /\ UNCHANGED <<pager, inflight>>

Next ==
    \/ CreateTable
    \/ PutItem
    \/ GetItem
    \/ UpdateItem
    \/ DeleteItem
    \/ Query
    \/ Scan
    \/ Unsupported

Spec == Init /\ [][Next]_vars

\* PutItem before a transaction.
TransactPutItem ==
    /\ \E body \in TransactPutBodies :
           handleDynamoDBRequest(Target("PutItem"), body, clock)
    /\ UNCHANGED <<pager, inflight>>

TransactWriteItems ==
    /\ \E body \in TransactBodies :
           handleDynamoDBRequest(Target("TransactWriteItems"), body, clock)
    /\ UNCHANGED <<pager, inflight>>

NextTx ==
    \/ TransactPutItem
    \/ TransactWriteItems

SpecTx == Init /\ [][NextTx]_vars

\* PutItem into the table before it is paged.
PagePutItem ==
    /\ ~pager.active
    /\ \E body \in PagePutBodies :
           handleDynamoDBRequest(Target("PutItem"), body, clock)
    /\ Cardinality(dynamodb_items') <= MaxPageRows
    /\ UNCHANGED <<pager, inflight>>

\* The client's record of a chain after a call: the calls made, the items
\* received so far, and whether the last response had a LastEvaluatedKey.
Following(op, calls, seen, resp) ==
    [active |-> TRUE, op |-> op, calls |-> calls,
     seen |-> seen \o resp.body.Items,
     more |-> Present(resp.body, "LastEvaluatedKey")]

\* The first call of a chain.
FirstPage ==
    /\ ~pager.active
    /\ \E op \in {"Query", "Scan"} :
           \E body \in PageBodies(op) :
               /\ handleDynamoDBRequest(Target(op), body, clock)
               /\ pager' = Following(op, 1, <<>>, response')
    /\ UNCHANGED inflight

\* The LastEvaluatedKey of a response as the next request receives it.
SentBack(key) == JSONparse(JSONstringify(key))

\* The next call of a chain: the same request with the LastEvaluatedKey of
\* the last response as ExclusiveStartKey.
NextPage ==
    /\ pager.active
    /\ pager.more
    /\ pager.calls < MaxCalls
    /\ handleDynamoDBRequest(
           Target(pager.op),
           [ExclusiveStartKey |-> SentBack(response.body.LastEvaluatedKey)]
               @@ request.body,
           clock)
    /\ pager' = Following(pager.op, pager.calls + 1, pager.seen, response')
    /\ UNCHANGED inflight

NextPages ==
    \/ PagePutItem
    \/ FirstPage
    \/ NextPage

SpecPage == Init /\ [][NextPages]_vars

\* SpecChain: a client that follows LastEvaluatedKey for as long as the
\* responses carry one.  The record of the chain holds the last page, and
\* the count of calls stops at MaxCalls.

\* The client sends the request again with the LastEvaluatedKey of the last
\* response as ExclusiveStartKey.
FollowPage ==
    /\ pager.active
    /\ pager.more
    /\ inflight.waiting = {}
    /\ inflight' = [inflight EXCEPT
           !.waiting = {[req |-> [target |-> Target(pager.op),
                                  body |-> [ExclusiveStartKey |->
                                               response.body.LastEvaluatedKey]
                                           @@ request.body],
                         arrived |-> dynamodb_items]}]
    /\ UNCHANGED <<dynamodb_tables, dynamodb_items, clock, request, response,
                   pager, objects>>

\* The server reads the body of the request in flight and answers it.
AnswerPage ==
    /\ \E e \in inflight.waiting :
           \E body \in {[e.req.body EXCEPT !.ExclusiveStartKey = SentBack(@)]} :
               handleDynamoDBRequest(e.req.target, body, clock)
    /\ pager' = Following(pager.op,
                          IF pager.calls < MaxCalls THEN pager.calls + 1
                          ELSE MaxCalls,
                          <<>>, response')
    /\ inflight' = NoneInFlight

NextChain ==
    \/ PagePutItem
    \/ FirstPage
    \/ FollowPage
    \/ AnswerPage

\* The server answers every request it has received: weak fairness of
\* AnswerPage, which is enabled exactly when a request is in flight (the
\* handler answers every request) and whose every step takes the request
\* out of flight.
Answered ==
    \/ []<>(inflight.waiting = {})
    \/ []<><<AnswerPage>>_vars

\* The client follows every LastEvaluatedKey, and the server answers.
SpecChain ==
    Init /\ [][NextChain]_vars /\ WF_vars(FollowPage) /\ Answered

\* The latest time the clock of SpecClock shows.
MaxClock == 3

\* The latest value Date.now() returns during the next request: the clock
\* advances by at most one while a request is served.
Later == IF clock < MaxClock THEN clock + 1 ELSE clock

\* SpecClock: writes to one key while the clock advances.
ClockPutItem ==
    /\ \E body \in TransactPutBodies :
           handleDynamoDBRequest(Target("PutItem"), body, Later)
    /\ UNCHANGED <<pager, inflight>>

ClockUpdateItem ==
    /\ \E body \in {b \in UpdateBodies : b.Key = TxKey} :
           handleDynamoDBRequest(Target("UpdateItem"), body, Later)
    /\ UNCHANGED <<pager, inflight>>

ClockTransactWriteItems ==
    /\ \E body \in {b \in TransactBodies : Len(b.TransactItems) = 1} :
           handleDynamoDBRequest(Target("TransactWriteItems"), body, Later)
    /\ UNCHANGED <<pager, inflight>>

NextClock ==
    \/ ClockPutItem
    \/ ClockUpdateItem
    \/ ClockTransactWriteItems

SpecClock == Init /\ [][NextClock]_vars

\* SpecTables: two tables of simple-key items, created and created again,
\* and the item operations on them.
TablesCreateTable ==
    /\ \E body \in TablesCreateBodies :
           handleDynamoDBRequest(Target("CreateTable"), body, clock)
    /\ UNCHANGED <<pager, inflight>>

TablesPutItem ==
    /\ \E body \in TablesPutBodies :
           handleDynamoDBRequest(Target("PutItem"), body, clock)
    /\ UNCHANGED <<pager, inflight>>

TablesQuery ==
    /\ \E body \in TablesQueryBodies :
           handleDynamoDBRequest(Target("Query"), body, clock)
    /\ UNCHANGED <<pager, inflight>>

TablesGetItem ==
    /\ \E body \in TablesKeyBodies :
           handleDynamoDBRequest(Target("GetItem"), body, clock)
    /\ UNCHANGED <<pager, inflight>>

TablesUpdateItem ==
    /\ \E body \in TablesUpdateBodies :
           handleDynamoDBRequest(Target("UpdateItem"), body, clock)
    /\ UNCHANGED <<pager, inflight>>

TablesDeleteItem ==
    /\ \E body \in TablesKeyBodies :
           handleDynamoDBRequest(Target("DeleteItem"), body, clock)
    /\ UNCHANGED <<pager, inflight>>

TablesScan ==
    /\ \E body \in TablesScanBodies :
           handleDynamoDBRequest(Target("Scan"), body, clock)
    /\ UNCHANGED <<pager, inflight>>

TablesTransactWriteItems ==
    /\ \E body \in TablesTransactBodies :
           handleDynamoDBRequest(Target("TransactWriteItems"), body, clock)
    /\ UNCHANGED <<pager, inflight>>

NextTables ==
    \/ TablesCreateTable
    \/ TablesPutItem
    \/ TablesQuery
    \/ TablesGetItem
    \/ TablesUpdateItem
    \/ TablesDeleteItem
    \/ TablesScan
    \/ TablesTransactWriteItems

SpecTables == Init /\ [][NextTables]_vars

\* SpecInput: requests at the edge of the input: keyless items, queries
\* without a resolvable condition, requests that lack a field.
InputPutItem ==
    /\ \E body \in InputPutBodies :
           handleDynamoDBRequest(Target("PutItem"), body, clock)
    /\ UNCHANGED <<pager, inflight>>

InputGetItem ==
    /\ \E body \in InputKeyBodies :
           handleDynamoDBRequest(Target("GetItem"), body, clock)
    /\ UNCHANGED <<pager, inflight>>

InputQuery ==
    /\ \E body \in UnresolvedQueryBodies :
           handleDynamoDBRequest(Target("Query"), body, clock)
    /\ UNCHANGED <<pager, inflight>>

Incomplete ==
    /\ \E req \in IncompleteRequests :
           handleDynamoDBRequest(req.target, req.body, clock)
    /\ UNCHANGED <<pager, inflight>>

NextInput ==
    \/ InputPutItem
    \/ InputGetItem
    \/ InputQuery
    \/ Incomplete

SpecInput == Init /\ [][NextInput]_vars

\* SpecUpdate: update expressions applied to the record of one key, by
\* UpdateItem and by the Update of a transaction.
UpdatePutItem ==
    /\ handleDynamoDBRequest(Target("PutItem"),
                             [TableName |-> "t1", Item |-> TxItem], clock)
    /\ UNCHANGED <<pager, inflight>>

UpdateItemSet ==
    /\ \E body \in SetBodies :
           handleDynamoDBRequest(Target("UpdateItem"), body, clock)
    /\ UNCHANGED <<pager, inflight>>

TransactUpdateSet ==
    /\ \E body \in {b \in SetBodies : \E c \in ClausesOf(b) : Len(c) = 1} :
           handleDynamoDBRequest(Target("TransactWriteItems"),
                                 [TransactItems |-> <<[Update |-> body]>>], clock)
    /\ UNCHANGED <<pager, inflight>>

NextUpdate ==
    \/ UpdatePutItem
    \/ UpdateItemSet
    \/ TransactUpdateSet

SpecUpdate == Init /\ [][NextUpdate]_vars

\* SpecKey: updates whose SET clause writes a key attribute.
KeyPutItem ==
    /\ \E item \in KeyedItems :
           handleDynamoDBRequest(Target("PutItem"),
                                 [TableName |-> "t1", Item |-> item], clock)
    /\ UNCHANGED <<pager, inflight>>

KeyUpdateItem ==
    /\ \E body \in KeyUpdateBodies :
           handleDynamoDBRequest(Target("UpdateItem"), body, clock)
    /\ UNCHANGED <<pager, inflight>>

KeyTransactUpdate ==
    /\ \E body \in KeyUpdateBodies :
           handleDynamoDBRequest(Target("TransactWriteItems"),
                                 [TransactItems |-> <<[Update |-> body]>>], clock)
    /\ UNCHANGED <<pager, inflight>>

KeyDeleteItem ==
    /\ \E k \in KeysOfItems :
           handleDynamoDBRequest(Target("DeleteItem"),
                                 [TableName |-> "t1", Key |-> k], clock)
    /\ UNCHANGED <<pager, inflight>>

NextKey ==
    \/ KeyPutItem
    \/ KeyUpdateItem
    \/ KeyTransactUpdate
    \/ KeyDeleteItem

SpecKey == Init /\ [][NextKey]_vars

\* SpecConcurrent: requests arrive while others wait for their body; a
\* request in flight is served, whole, when its body has been read.
ConcurrentFill ==
    /\ dynamodb_items = {}
    /\ inflight = NoneInFlight
    /\ handleDynamoDBRequest(Target("PutItem"),
                             [TableName |-> "t1", Item |-> TxItem], clock)
    /\ UNCHANGED <<pager, inflight>>

\* handleDynamoDBRequest up to `await req.json()`.
Arrive ==
    /\ dynamodb_items # {}
    /\ Cardinality(inflight.waiting) < MaxInFlight
    /\ \E req \in ConcurrentRequests :
           /\ \A e \in inflight.waiting \cup inflight.done : e.req # req
           /\ inflight' = [inflight EXCEPT
                  !.waiting = @ \cup {[req |-> req, arrived |-> dynamodb_items]}]
    /\ UNCHANGED <<dynamodb_tables, dynamodb_items, clock, request, response,
                   pager, objects>>

\* handleDynamoDBRequest from the end of the await on.
Resume ==
    /\ \E e \in inflight.waiting :
           /\ Resumed(e, clock)
           /\ inflight' = [waiting |-> inflight.waiting \ {e},
                           done |-> inflight.done \cup {e}]
    /\ UNCHANGED pager

NextConcurrent ==
    \/ ConcurrentFill
    \/ Arrive
    \/ Resume

SpecConcurrent == Init /\ [][NextConcurrent]_vars

\* Presigned requests.  The times of the clock, in milliseconds; the stamps
\* of 1970-01-01 00:00:00 and of no date; a lifetime of five seconds and
\* one that is no number; two signature values and the empty one.
PresignTimes == {0, 7000}

Stamp0 ==
    <<"1", "9", "7", "0", "0", "1", "0", "1", "T", "0", "0", "0", "0", "0", "0", "Z">>

Stamps == {Stamp0, <<"x">>}

SignatureValues == {<<"s", "1">>, <<"s", "2">>}

\* The six parameters, each with a value.
FullQueries ==
    {[Algorithm |-> a, Credential |-> expectedCredential(c), Date |-> d,
      Expires |-> e, SignedHeaders |-> <<"h", "o", "s", "t">>, Signature |-> g] :
        a \in {AWS4, <<"x">>}, c \in Stamps, d \in Stamps,
        e \in {<<"5">>, <<"x">>}, g \in SignatureValues \cup {<<>>}}

\* The record without one of its fields.
Omit(query, name) == [n \in DOMAIN query \ {name} |-> query[n]]

\* No parameter; all six; all six but one.
Queries ==
    {<<>>} \cup FullQueries
    \cup {Omit(q, name) :
             q \in {f \in FullQueries : /\ f.Algorithm = AWS4
                                        /\ f.Credential = expectedCredential(f.Date)
                                        /\ f.Signature # <<>>},
             name \in {"Algorithm", "Credential", "Date", "Expires",
                       "SignedHeaders", "Signature"}}

PresignedPutRequests ==
    {[method |-> "PUT", path |-> <<"/", "a">>, query |-> q, body |-> b,
      contentType |-> "text/plain"] :
        q \in Queries, b \in {<<72, 105>>, <<195, 169>>}}

PresignedGetRequests ==
    {[method |-> "GET", path |-> <<"/", "a">>, query |-> q] : q \in Queries}

\* SpecPresigned: PUT and GET of one object through presigned URLs, at the
\* times the clock shows.
PresignedPut ==
    /\ \E req \in PresignedPutRequests :
           \E now \in {t \in PresignTimes : t >= clock} :
               /\ objects' = handlePutObject(objects, Verified(req, now), now).objects
               /\ response' = handlePutObject(objects, Verified(req, now), now).resp
               /\ request' = req
               /\ clock' = now
    /\ UNCHANGED <<dynamodb_tables, dynamodb_items, pager, inflight>>

PresignedGet ==
    /\ \E req \in PresignedGetRequests :
           \E now \in {t \in PresignTimes : t >= clock} :
               /\ response' = handleGetObject(objects, Verified(req, now))
               /\ request' = req
               /\ clock' = now
    /\ UNCHANGED <<dynamodb_tables, dynamodb_items, pager, objects, inflight>>

NextPresigned ==
    \/ PresignedPut
    \/ PresignedGet

SpecPresigned == Init /\ [][NextPresigned]_vars

\* SpecObjects: PUT and GET of objects.
PutObject ==
    /\ \E req \in PutObjectRequests :
           /\ objects' = handlePutObject(objects, req, clock).objects
           /\ response' = handlePutObject(objects, req, clock).resp
           /\ request' = req
    /\ UNCHANGED <<dynamodb_tables, dynamodb_items, clock, pager, inflight>>

GetObject ==
    /\ \E req \in GetObjectRequests :
           /\ response' = handleGetObject(objects, req)
           /\ request' = req
    /\ UNCHANGED <<dynamodb_tables, dynamodb_items, clock, pager, objects,
                   inflight>>

NextObjects ==
    \/ PutObject
    \/ GetObject

SpecObjects == Init /\ [][NextObjects]_vars

----------------------------------------------------------------------------
(* Properties.  A record is stored under a key when its row has the key's  *)
(* table_name and the item_key derived from the key.                       *)

\* The rows of table stored under the key derived from key.
Stored(items, table, key) ==
    {r \in items : r.table_name = table /\ r.item_key = generateItemKey(key)}

\* A Put's condition expression read against the record stored under its
\* item's key: attribute_not_exists(#p) is false when there is such a
\* record, attribute_exists(#p) AND #v = :expectedVersion is false unless
\* there is one whose $v is the expected version.
ConditionFalse(items, put) ==
    /\ Present(put, "ConditionExpression")
    /\ Present(put, "Item")
    /\ \/ /\ put.ConditionExpression = NotExists.ConditionExpression
          /\ Stored(items, put.TableName, put.Item) # {}
       \/ /\ put.ConditionExpression = ExistsAndVersion.ConditionExpression
          /\ \A r \in Stored(items, put.TableName, put.Item) :
                 \/ ~Has(JSONparse(r.item_data), V)
                 \/ Get(JSONparse(r.item_data), V)
                        # put.ExpressionAttributeValues[1][2]

\* The response that reports a failed condition.
ConditionalCheckFailed(resp) ==
    /\ resp.status = 400
    /\ Present(resp.body, "__type")
    /\ resp.body.__type = "ConditionalCheckFailedException"

\* The step serves a request of operation op.
Serves(op) == request'.target = Target(op)

\* A sub-operation of the step's transaction is a Put whose condition is
\* false in the store the call finds.
SomeConditionFalse ==
    \E k \in 1..Len(request'.body.TransactItems) :
        /\ Present(request'.body.TransactItems[k], "Put")
        /\ ConditionFalse(dynamodb_items, request'.body.TransactItems[k].Put)

\* C1: a TransactWriteItems call with a sub-operation whose condition is
\* false reports ConditionalCheckFailed and leaves the stored records as
\* they were.
C1_TransactConditionChecked ==
    [][Serves("TransactWriteItems") /\ SomeConditionFalse
         => ConditionalCheckFailed(response') /\ dynamodb_items' = dynamodb_items]_vars

\* C2: a PutItem whose condition expression is false against the stored
\* record fails with ConditionalCheckFailed and leaves the store unchanged.
C2_PutConditionChecked ==
    [][Serves("PutItem") /\ ConditionFalse(dynamodb_items, request'.body)
         => ConditionalCheckFailed(response') /\ dynamodb_items' = dynamodb_items]_vars

\* The sub-operations of the step's transaction.
TransactItems == request'.body.TransactItems

\* A sub-operation that cannot be processed: a Put without Item, an Update
\* or a Delete without Key.
Malformed(op) ==
    \/ Present(op, "Put") /\ ~Present(op.Put, "Item")
    \/ Present(op, "Update") /\ ~Present(op.Update, "Key")
    \/ Present(op, "Delete") /\ ~Present(op.Delete, "Key")

\* The table and the derived key a well-formed sub-operation writes to.
Addressed(op) ==
    CASE Present(op, "Put") ->
             [table |-> op.Put.TableName, key |-> generateItemKey(op.Put.Item)]
      [] Present(op, "Update") ->
             [table |-> op.Update.TableName, key |-> generateItemKey(op.Update.Key)]
      [] Present(op, "Delete") ->
             [table |-> op.Delete.TableName, key |-> generateItemKey(op.Delete.Key)]

\* The rows at an address.
RowsAt(items, a) == {r \in items : r.table_name = a.table /\ r.item_key = a.key}

\* No later sub-operation of the batch writes to the address of the k-th.
LastOn(ops, k) ==
    \A j \in (k + 1)..Len(ops) : Addressed(ops[j]) # Addressed(ops[k])

\* There is a record at address a once the first k sub-operations are done.
RECURSIVE PresentAfter(_, _, _, _)
PresentAfter(ops, k, before, a) ==
    IF k = 0 THEN RowsAt(before, a) # {}
    ELSE IF Addressed(ops[k]) = a /\ Present(ops[k], "Put") THEN TRUE
    ELSE IF Addressed(ops[k]) = a /\ Present(ops[k], "Delete") THEN FALSE
    ELSE PresentAfter(ops, k - 1, before, a)

\* The effect of the k-th sub-operation, the last on its address, is in the
\* rows after: the Put's item is the record, the Delete's record is gone, the
\* Update's record holds the new $v if there was a record to update.
EffectPresent(ops, k, before, after) ==
    CASE Present(ops[k], "Put") ->
             \E r \in RowsAt(after, Addressed(ops[k])) :
                 JSONparse(r.item_data) = ops[k].Put.Item
      [] Present(ops[k], "Update") ->
             IF PresentAfter(ops, k - 1, before, Addressed(ops[k]))
             THEN \E r \in RowsAt(after, Addressed(ops[k])) :
                      Get(JSONparse(r.item_data), V)
                          = Get(ops[k].Update.ExpressionAttributeValues, <<":", "v">>)
             ELSE RowsAt(after, Addressed(ops[k])) = {}
      [] Present(ops[k], "Delete") -> RowsAt(after, Addressed(ops[k])) = {}

\* The effects of all sub-operations are in the rows after, and the rows no
\* sub-operation addresses are as before.
AllEffectsPresent(ops, before, after) ==
    /\ \A k \in 1..Len(ops) : LastOn(ops, k) => EffectPresent(ops, k, before, after)
    /\ \A r \in before \cup after :
           (\A k \in 1..Len(ops) :
                Addressed(ops[k]) # [table |-> r.table_name, key |-> r.item_key])
               => (r \in before /\ r \in after)

\* C3: TransactWriteItems is all-or-nothing: when a sub-operation of the
\* batch fails (here: is malformed), the call reports an error and the store
\* holds none of the effects of the sub-operations before it; when none
\* fails, the call succeeds and the effects of all of them are in the store.
C3_TransactAllOrNothing ==
    [][Serves("TransactWriteItems")
         => IF \E k \in 1..Len(TransactItems) : Malformed(TransactItems[k])
            THEN response'.status >= 400 /\ dynamodb_items' = dynamodb_items
            ELSE /\ response'.status = 200
                 /\ AllEffectsPresent(TransactItems, dynamodb_items,
                                      dynamodb_items')]_vars

\* A batch of a Put of the id item and a malformed Put was answered with an
\* error, and the store holds no record of the id item.
C3_Witness ==
    /\ request.target = Target("TransactWriteItems")
    /\ Len(request.body.TransactItems) = 2
    /\ request.body.TransactItems[1]
           = [Put |-> [TableName |-> "t1", Item |-> <<<<ID, Str(<<"i">>)>>>>]]
    /\ Malformed(request.body.TransactItems[2])
    /\ response.status = 500
    /\ Stored(dynamodb_items, "t1", <<<<ID, Str(<<"i">>)>>>>) = {}

\* The key attributes of an item: partition and sort of a composite-key
\* item, the id of a simple one.
KeyAttrsOf(item) ==
    IF Has(item, P) \/ Has(item, S) THEN Pick(item, P) \o Pick(item, S)
    ELSE Pick(item, ID)

\* The rows of table whose document has the key attributes of item.
WithKeyAttrsOf(items, table, item) ==
    {r \in items : /\ r.table_name = table
                   /\ KeyAttrsOf(JSONparse(r.item_data)) = KeyAttrsOf(item)}

\* Items with the same key attributes derive the same key.
DeriveStable ==
    \A a, b \in Items :
        KeyAttrsOf(a) = KeyAttrsOf(b) => generateItemKey(a) = generateItemKey(b)

\* C4: key stability: items with identical key attributes derive equal keys;
\* after a PutItem the table holds exactly one record with the key attributes
\* of the item put, and its document is that item; no two rows share table
\* and derived key.
C4_KeyStability ==
    [][/\ DeriveStable
       /\ (Serves("PutItem") /\ response'.status = 200)
            => \E r \in dynamodb_items' :
                   /\ JSONparse(r.item_data) = request'.body.Item
                   /\ WithKeyAttrsOf(dynamodb_items', request'.body.TableName,
                                     request'.body.Item) = {r}
       /\ \A r, q \in dynamodb_items' :
              (r.table_name = q.table_name /\ r.item_key = q.item_key) => r = q]_vars

\* C5: a PutItem followed at once by a GetItem of the key attributes of the
\* item returns a document equal to the item.
C5_PutGetRoundTrip ==
    [][(/\ request.target = Target("PutItem")
        /\ response.status = 200
        /\ Serves("GetItem")
        /\ request'.body = [TableName |-> request.body.TableName,
                            Key |-> KeyAttrsOf(request.body.Item)])
         => (/\ response'.status = 200
             /\ response'.body = [Item |-> request.body.Item])]_vars

\* C6: an UpdateItem of a key under which no record is stored returns
\* ResourceNotFound and leaves the store as it was.
C6_UpdateAbsentKey ==
    [][(/\ Serves("UpdateItem")
        /\ Stored(dynamodb_items, request'.body.TableName, request'.body.Key) = {})
         => (/\ response'.status = 400
             /\ Present(response'.body, "__type")
             /\ response'.body.__type = "ResourceNotFoundException"
             /\ dynamodb_items' = dynamodb_items
             /\ dynamodb_tables' = dynamodb_tables)]_vars

\* An UpdateItem was refused with ResourceNotFound while the store holds
\* records under other keys.
C6_Witness ==
    /\ request.target = Target("UpdateItem")
    /\ response.status = 400
    /\ Stored(dynamodb_items, request.body.TableName, request.body.Key) = {}
    /\ Cardinality(dynamodb_items) = MaxRows

\* C7: DeleteItem succeeds and removes exactly the record stored under its
\* key, if there is one (the table is unchanged if there is none); the same
\* DeleteItem once more leaves the store as the first left it, and a
\* following GetItem of the key finds no item.
C7_DeleteIdempotent ==
    [][/\ Serves("DeleteItem")
            => (/\ response'.status = 200
                /\ response'.body = <<>>
                /\ dynamodb_items' = dynamodb_items
                       \ Stored(dynamodb_items, request'.body.TableName,
                                request'.body.Key)
                /\ Cardinality(Stored(dynamodb_items, request'.body.TableName,
                                      request'.body.Key)) <= 1)
       /\ (request.target = Target("DeleteItem") /\ request' = request)
            => dynamodb_items' = dynamodb_items
       /\ (/\ request.target = Target("DeleteItem")
           /\ Serves("GetItem")
           /\ request'.body = request.body)
            => (response'.status = 200 /\ response'.body = <<>>)]_vars

\* A DeleteItem removed the record of its key and left another record.
C7_Witness ==
    /\ request.target = Target("DeleteItem")
    /\ response.status = 200
    /\ Stored(dynamodb_items, request.body.TableName, request.body.Key) = {}
    /\ dynamodb_items # {}

\* ceil(n / l)
Ceil(n, l) == (n + l - 1) \div l

\* The rows of the partition a Query request names.
PartitionRows(items, body) ==
    {r \in items :
        /\ r.table_name = body.TableName
        /\ Has(JSONparse(r.item_data), P)
        /\ Get(JSONparse(r.item_data), P)
               = Get(body.ExpressionAttributeValues, <<":", "p", "k">>)}

\* The rows of the table a request names.
TableRows(items, body) == {r \in items : r.table_name = body.TableName}

\* A chain of pages with a limit over rows conserves them: it goes on while
\* fewer than ceil(N / limit) calls are made, and with that many calls made
\* the items received are the documents of rows, each once, in ascending
\* order of item_key.
Conserved(rows, limit) ==
    /\ pager.calls < Ceil(Cardinality(rows), limit) => pager.more
    /\ pager.calls = Ceil(Cardinality(rows), limit)
           => pager.seen = ParseRows(OrderByItemKey(rows))

\* C8: Query pagination conservation: a chain of Query calls with limit L
\* over a partition of N items returns, in its first ceil(N/L) calls, each
\* item of the partition once, in ascending derived-key order.
C8_QueryPagination ==
    (/\ pager.active
     /\ pager.op = "Query"
     /\ Present(request.body, "Limit")
     /\ PartitionRows(dynamodb_items, request.body) # {})
        => Conserved(PartitionRows(dynamodb_items, request.body),
                     request.body.Limit)

\* C9: Scan pagination conservation: a chain of Scan calls with limit L over
\* a table of N items returns, in ceil(N/L) calls, each item of the table
\* once, in ascending derived-key order, and the last of these responses has
\* no LastEvaluatedKey.
C9_ScanPagination ==
    (/\ pager.active
     /\ pager.op = "Scan"
     /\ Present(request.body, "Limit")
     /\ TableRows(dynamodb_items, request.body) # {})
        => /\ Conserved(TableRows(dynamodb_items, request.body), request.body.Limit)
           /\ pager.calls = Ceil(Cardinality(TableRows(dynamodb_items, request.body)),
                                 request.body.Limit)
                  => ~pager.more

\* The rows a Query request matches.
Matching(items, body) ==
    {r \in items : /\ r.table_name = body.TableName
                   /\ Like(r.item_key, SearchPattern(body))}

\* The rows of matching that come after the row of startKey, or all of them
\* when no row has that key.
After(matching, startKey) ==
    IF \E r \in matching : r.item_key = startKey
    THEN {r \in matching : StrLess(startKey, r.item_key)}
    ELSE matching

\* The rows a Query considers: those it matches, after its exclusive start
\* key.
Considered(items, body) ==
    IF Present(body, "ExclusiveStartKey")
    THEN After(Matching(items, body), generateItemKey(body.ExclusiveStartKey))
    ELSE Matching(items, body)

Min(a, b) == IF a <= b THEN a ELSE b

\* Count is the number of items returned, ScannedCount the number n of rows
\* considered; with a limit, Count is the smaller of n and the limit, and a
\* limit of 2 over 5 rows gives Count 2, ScannedCount 5 and a non-empty
\* LastEvaluatedKey.
CountsOf(body, resp, n) ==
    /\ resp.Count = Len(resp.Items)
    /\ resp.ScannedCount = n
    /\ resp.Count = IF Present(body, "Limit") THEN Min(n, body.Limit) ELSE n
    /\ (Present(body, "Limit") /\ body.Limit = 2 /\ n = 5)
           => (/\ resp.Count = 2
               /\ resp.ScannedCount = 5
               /\ Present(resp, "LastEvaluatedKey")
               /\ resp.LastEvaluatedKey # <<>>)

\* C10: a Query reports Count = the number of items returned after the limit
\* truncated them and ScannedCount = the number of items considered after
\* the exclusive start key and before the limit; 5 matching items with
\* limit 2 give Count 2, ScannedCount 5 and a non-empty LastEvaluatedKey.
C10_QueryCounts ==
    [][(Serves("Query") /\ response'.status = 200)
         => CountsOf(request'.body, response'.body,
                     Cardinality(Considered(dynamodb_items, request'.body)))]_vars

\* A Query with limit 2 over 5 matching items returned 2 of them.
C10_Witness ==
    /\ request.target = Target("Query")
    /\ Present(request.body, "Limit")
    /\ request.body.Limit = 2
    /\ ~Present(request.body, "ExclusiveStartKey")
    /\ Cardinality(Matching(dynamodb_items, request.body)) = 5
    /\ response.body.Count = 2
    /\ response.body.ScannedCount = 5
    /\ Present(response.body, "LastEvaluatedKey")

\* The rows of a set after the row of startKey, or all of them when no row
\* has that key, for the start key a request carries (all of them when it
\* carries none).
Remaining(rows, body) ==
    IF Present(body, "ExclusiveStartKey")
    THEN After(rows, generateItemKey(body.ExclusiveStartKey))
    ELSE rows

\* C11: when the limit of a Scan truncates a larger remaining set (the rows
\* of the table after the start key are more than the limit), ScannedCount
\* is the number of those rows, Count is the limit, and ScannedCount > Count.
C11_ScanCounts ==
    [][(/\ Serves("Scan")
        /\ response'.status = 200
        /\ Present(request'.body, "Limit")
        /\ Cardinality(Remaining(TableRows(dynamodb_items, request'.body),
                                 request'.body)) > request'.body.Limit)
         => (/\ response'.body.ScannedCount
                    = Cardinality(Remaining(TableRows(dynamodb_items, request'.body),
                                            request'.body))
             /\ response'.body.Count = request'.body.Limit
             /\ response'.body.ScannedCount > response'.body.Count)]_vars

\* Two objects have the same members, in whatever order.
SameMembers(a, b) ==
    /\ Len(a) = Len(b)
    /\ {a[i] : i \in 1..Len(a)} = {b[i] : i \in 1..Len(b)}

\* The limit rule over the remaining rows: when they are at least Limit, the
\* items returned are the documents of the first Limit of them and
\* LastEvaluatedKey holds the key attributes of the last item returned; when
\* they are fewer, or there is no Limit, the items returned are the documents
\* of all of them and there is no LastEvaluatedKey.
LimitRule(body, resp, remaining) ==
    IF Present(body, "Limit") /\ Cardinality(remaining) >= body.Limit
    THEN /\ resp.Items = SubSeq(ParseRows(OrderByItemKey(remaining)), 1, body.Limit)
         /\ Present(resp, "LastEvaluatedKey")
         /\ SameMembers(resp.LastEvaluatedKey,
                        KeyAttrsOf(resp.Items[Len(resp.Items)]))
    ELSE /\ resp.Items = ParseRows(OrderByItemKey(remaining))
         /\ ~Present(resp, "LastEvaluatedKey")

\* C12: Query limit rule: with at least Limit items remaining after the
\* start key, a Query returns exactly Limit items and a LastEvaluatedKey
\* that holds the key attributes of the last of them; with fewer, or without
\* Limit, it returns all of them and no LastEvaluatedKey.
C12_QueryLimitRule ==
    [][(Serves("Query") /\ response'.status = 200)
         => LimitRule(request'.body, response'.body,
                      Considered(dynamodb_items, request'.body))]_vars

\* C13: Scan limit rule: with at least Limit items remaining after the start
\* key, exactly Limit among them, a Scan returns exactly Limit items and a
\* LastEvaluatedKey that holds the key attributes of the last of them;
\* otherwise it returns all of them and no LastEvaluatedKey.
C13_ScanLimitRule ==
    [][(Serves("Scan") /\ response'.status = 200)
         => LimitRule(request'.body, response'.body,
                      Remaining(TableRows(dynamodb_items, request'.body),
                                request'.body))]_vars

\* The rows of before that have the table and the key of row r.
Earlier(before, r) ==
    {q \in before : q.table_name = r.table_name /\ q.item_key = r.item_key}

\* C14: created_at of a record is set at the first insertion under its key
\* and kept by every later PutItem, UpdateItem and transactional write of the
\* key; updated_at is the time of the write at every write.
C14_CreatedAtKept ==
    [][\A r \in dynamodb_items' \ dynamodb_items :
           /\ r.updated_at \in clock..clock'
           /\ IF Earlier(dynamodb_items, r) = {}
              THEN r.created_at \in clock..clock'
              ELSE \A q \in Earlier(dynamodb_items, r) :
                       r.created_at = q.created_at]_vars

\* The rows of dynamodb_tables for the table a request names.
Described(tables, body) == {r \in tables : r.table_name = body.TableName}

\* C15: CreateTable, also of a table that exists, answers with an ACTIVE
\* descriptor of the table, leaves every item record of every table as it
\* was, leaves the metadata of the other tables as it was, and leaves one
\* metadata row for the table, holding the schema of the request.
C15_CreateTableKeepsItems ==
    [][Serves("CreateTable")
         => (/\ response'.status = 200
             /\ response'.body.TableDescription.TableName = request'.body.TableName
             /\ response'.body.TableDescription.TableStatus = "ACTIVE"
             /\ dynamodb_items' = dynamodb_items
             /\ dynamodb_tables' \ Described(dynamodb_tables', request'.body)
                    = dynamodb_tables \ Described(dynamodb_tables, request'.body)
             /\ Cardinality(Described(dynamodb_tables', request'.body)) = 1
             /\ \A r \in Described(dynamodb_tables', request'.body) :
                    /\ r.key_schema = StringifyArray(request'.body.KeySchema)
                    /\ r.attribute_definitions
                           = StringifyArray(request'.body.AttributeDefinitions))]_vars

\* CreateTable of t1 with the simple schema was served while t1 and t2 hold
\* items and t2 has the composite schema.
C15_Witness ==
    /\ request.target = Target("CreateTable")
    /\ request.body.TableName = "t1"
    /\ request.body.KeySchema[1][1][2] = Str(ID)
    /\ response.body.TableDescription.TableStatus = "ACTIVE"
    /\ \A t \in BothTables : \E r \in dynamodb_items : r.table_name = t
    /\ \E r \in dynamodb_tables :
           r.table_name = "t2" /\ r.key_schema # StringifyArray(request.body.KeySchema)
    /\ \E r \in dynamodb_tables :
           r.table_name = "t1" /\ r.key_schema = StringifyArray(request.body.KeySchema)

\* C17: a Query with the key condition "#p = :pk" (no limit, no start key)
\* returns the items of its table whose partition attribute equals the bound
\* value, all of them and no other.
C17_QueryPartition ==
    [][(/\ Serves("Query")
        /\ request'.body.KeyConditionExpression = PartitionEquals
        /\ ~Present(request'.body, "Limit")
        /\ ~Present(request'.body, "ExclusiveStartKey"))
         => (/\ response'.status = 200
             /\ response'.body.Items
                    = ParseRows(OrderByItemKey(
                          PartitionRows(dynamodb_items, request'.body))))]_vars

\* The rows of the table a Query names whose id is the value bound to :id.
IdRows(items, body) ==
    {r \in items :
        /\ r.table_name = body.TableName
        /\ Has(JSONparse(r.item_data), ID)
        /\ Get(JSONparse(r.item_data), ID)
               = Get(body.ExpressionAttributeValues, <<":", "i", "d">>)}

\* C18: on a table of simple-key items a Query with the key condition
\* "id = :id" returns the items whose id equals the bound value, and no other
\* item of the table.
C18_QueryId ==
    [][(Serves("Query") /\ request'.body.KeyConditionExpression = IdEquals)
         => (/\ response'.status = 200
             /\ response'.body.Items
                    = ParseRows(OrderByItemKey(IdRows(dynamodb_items, request'.body))))]_vars

\* The members of an object in the opposite order.
Reverse(obj) == [i \in 1..Len(obj) |-> obj[Len(obj) + 1 - i]]

\* C16: the key derived from an item is the key derived from its key
\* attributes alone (partition and sort, or id), whatever else the item holds
\* and in whatever order its attributes come, so that the record a PutItem
\* wrote is found under the key derived from the item's key attributes.
C16_KeyOfKeyAttributes ==
    (request.target = Target("PutItem") /\ response.status = 200)
        => (/\ generateItemKey(request.body.Item)
                   = generateItemKey(KeyAttrsOf(request.body.Item))
            /\ generateItemKey(Reverse(request.body.Item))
                   = generateItemKey(request.body.Item)
            /\ getItem(dynamodb_items, request.body.TableName,
                       generateItemKey(KeyAttrsOf(request.body.Item))) # {})

\* C19: a GetItem changes neither items nor tables, and when no record is
\* stored under its key (no row has the derived key, or no row's document
\* has the key attributes) it answers 200 with an empty body.
C19_GetAbsentKey ==
    [][Serves("GetItem")
         => (/\ dynamodb_items' = dynamodb_items
             /\ dynamodb_tables' = dynamodb_tables
             /\ (\/ Stored(dynamodb_items, request'.body.TableName,
                           request'.body.Key) = {}
                 \/ WithKeyAttrsOf(dynamodb_items, request'.body.TableName,
                                   request'.body.Key) = {})
                    => (response'.status = 200 /\ response'.body = <<>>))]_vars

\* A GetItem of a key without record was answered with an empty success
\* while the store holds records under other keys.
C19_Witness ==
    /\ request.target = Target("GetItem")
    /\ Stored(dynamodb_items, request.body.TableName, request.body.Key) = {}
    /\ response.status = 200
    /\ response.body = <<>>
    /\ Cardinality(dynamodb_items) = MaxRows

\* The targets the dispatcher knows.
Supported ==
    {Target(op) : op \in {"CreateTable", "PutItem", "GetItem", "UpdateItem",
                          "DeleteItem", "Query", "Scan", "TransactWriteItems"}}

\* C20: a request (with a JSON body) whose target is missing or names no
\* supported operation is answered with status 400 and changes neither
\* tables nor items.
C20_UnsupportedRejected ==
    [][request'.target \notin Supported
         => (/\ response'.status = 400
             /\ dynamodb_items' = dynamodb_items
             /\ dynamodb_tables' = dynamodb_tables)]_vars

\* A DescribeTable request was refused over a store that holds records.
C20_Witness ==
    /\ request.target = Target("DescribeTable")
    /\ response.status = 400
    /\ response.body = [text |-> "Unsupported operation: " \o Target("DescribeTable")]
    /\ Cardinality(dynamodb_items) = MaxRows

\* The request lacks a field its operation requires: TableName, or the Item
\* of a PutItem, or the Key of a GetItem, UpdateItem or DeleteItem.
LacksRequired(req) ==
    \/ ~Present(req.body, "TableName")
    \/ req.target = Target("PutItem") /\ ~Present(req.body, "Item")
    \/ /\ req.target \in {Target("GetItem"), Target("UpdateItem"), Target("DeleteItem")}
       /\ ~Present(req.body, "Key")

\* C21: a request of a supported operation that lacks a required field is
\* answered with a client error (status 4xx), not with the internal error
\* of a storage failure (status 500), and changes neither items nor tables.
C21_MissingFieldRejected ==
    [][(request'.target \in Supported /\ LacksRequired(request'))
         => (/\ response'.status >= 400
             /\ response'.status < 500
             /\ dynamodb_items' = dynamodb_items
             /\ dynamodb_tables' = dynamodb_tables)]_vars

\* No name of the value map occurs in the key condition expression, or one
\* of the two is missing.
Unresolvable(body) ==
    \/ ~Present(body, "KeyConditionExpression")
    \/ ~Present(body, "ExpressionAttributeValues")
    \/ \A i \in 1..Len(body.ExpressionAttributeValues) :
           ~Includes(body.KeyConditionExpression,
                     body.ExpressionAttributeValues[i][1])

\* C25: a Query without a resolvable key condition succeeds and returns the
\* items of the table it names, all of them and no item of another table.
C25_QueryWithoutCondition ==
    [][(Serves("Query") /\ Unresolvable(request'.body))
         => (/\ response'.status = 200
             /\ response'.body.Items
                    = ParseRows(OrderByItemKey(
                          TableRows(dynamodb_items, request'.body)))
             /\ response'.body.Count
                    = Cardinality(TableRows(dynamodb_items, request'.body)))]_vars

\* A Query of t1 whose value map lacks the placeholder of its expression
\* returned the two items of t1 while t2 holds items too.
C25_Witness ==
    /\ request.target = Target("Query")
    /\ request.body.TableName = "t1"
    /\ Present(request.body, "KeyConditionExpression")
    /\ Present(request.body, "ExpressionAttributeValues")
    /\ request.body.ExpressionAttributeValues # <<>>
    /\ response.status = 200
    /\ response.body.Count = 2
    /\ \E r \in dynamodb_items : r.table_name = "t2"

\* An item or key descriptor has none of the key attributes.
IsKeyless(item) == ~Has(item, P) /\ ~Has(item, S) /\ ~Has(item, ID)

\* The rows of a table whose document is keyless.
KeylessRows(items, table) ==
    {r \in items : r.table_name = table /\ IsKeyless(JSONparse(r.item_data))}

\* C26: every keyless item and key descriptor derives the same key, "{}";
\* a PutItem of a keyless item succeeds and leaves one keyless record in the
\* table, whose document is the item put; a GetItem by a keyless key
\* descriptor returns that record.
C26_KeylessCollapse ==
    [][/\ (Serves("PutItem") /\ Present(request'.body, "Item")
              /\ Present(request'.body, "TableName")
              /\ IsKeyless(request'.body.Item))
            => (/\ response'.status = 200
                /\ generateItemKey(request'.body.Item) = <<"{", "}">>
                /\ Cardinality(KeylessRows(dynamodb_items', request'.body.TableName)) = 1
                /\ \A r \in KeylessRows(dynamodb_items', request'.body.TableName) :
                       JSONparse(r.item_data) = request'.body.Item)
       /\ (Serves("GetItem") /\ Present(request'.body, "Key")
              /\ IsKeyless(request'.body.Key))
            => (/\ response'.status = 200
                /\ generateItemKey(request'.body.Key) = <<"{", "}">>
                /\ \A r \in KeylessRows(dynamodb_items, request'.body.TableName) :
                       response'.body = [Item |-> JSONparse(r.item_data)])]_vars

\* A keyless item was put over another keyless item: the table holds one
\* keyless record, the item put last, beside the record of a key.
C26_Witness ==
    /\ request.target = Target("PutItem")
    /\ Present(request.body, "Item")
    /\ request.body.Item = <<<<V, Num(2)>>>>
    /\ response.status = 200
    /\ Cardinality(KeylessRows(dynamodb_items, "t1")) = 1
    /\ Cardinality(TableRows(dynamodb_items, request.body)) = 2

\* The GET a client sends for the object a request addressed.
GetOf(req) == [method |-> "GET", path |-> req.path, signature |-> "unsigned"]

\* The rows of the other keys.
OtherObjects(rows, req) == {r \in rows : r.key # ObjectKey(req.path)}

\* C22: after a successful PUT of body B with content type T under key K a
\* GET of K returns status 200, body B, content type T and the ETag the PUT
\* returned, and K holds one object; the PUT leaves the objects of the other
\* keys as they were, and a GET changes no object.
C22_ObjectRoundTrip ==
    [][/\ (request'.method = "PUT" /\ response'.status = 200
              /\ Present(request', "contentType"))
            => (/\ handleGetObject(objects', GetOf(request')).status = 200
                /\ handleGetObject(objects', GetOf(request')).body
                       = [bytes |-> request'.body]
                /\ handleGetObject(objects', GetOf(request')).headers.ContentType
                       = request'.contentType
                /\ handleGetObject(objects', GetOf(request')).headers.ETag
                       = response'.headers.ETag
                /\ Cardinality(getObject(objects', ObjectKey(request'.path))) = 1
                /\ OtherObjects(objects', request') = OtherObjects(objects, request'))
       /\ (request'.method = "GET") => (objects' = objects)]_vars

\* C23: a GET of a key under which no object was put (nothing removes an
\* object, so: a key without a row) is answered 404 and leaves the objects
\* as they were.
C23_GetMissingObject ==
    [][(/\ request'.method = "GET"
        /\ ObjectKey(request'.path) # <<>>
        /\ ~SignatureRejected(request')
        /\ getObject(objects, ObjectKey(request'.path)) = {})
         => (/\ response'.status = 404
             /\ objects' = objects)]_vars

\* A GET of key a was answered 404 while key b holds an object, and no
\* object of key a exists afterwards.
C23_Witness ==
    /\ Present(request, "method")
    /\ request.method = "GET"
    /\ request.path = <<"/", "a">>
    /\ response.status = 404
    /\ getObject(objects, <<"a">>) = {}
    /\ getObject(objects, <<"b">>) # {}

\* The rows a request ranges over before its start key: those a Query
\* matches, the rows of the table for a Scan.
Ranged(items, req) ==
    IF req.target = Target("Query") THEN Matching(items, req.body)
    ELSE TableRows(items, req.body)

\* The number of items a response holds when n rows remain.
PageLength(body, n) == IF Present(body, "Limit") THEN Min(n, body.Limit) ELSE n

\* The items of a response are the documents of the first rows of remaining,
\* in key order, as many as the limit allows.
StartsWithin(body, resp, remaining) ==
    resp.Items = SubSeq(ParseRows(OrderByItemKey(remaining)), 1,
                        PageLength(body, Cardinality(remaining)))

\* C24: a Query or Scan with an ExclusiveStartKey returns the first items,
\* up to the limit, of the rows that remain of its ordered result once the
\* rows up to and including the row the start key identifies (the row with
\* the key derived from its key attributes) are dropped; when the start key
\* identifies no row of the result, all rows remain.
C24_ExclusiveStartKey ==
    [][(/\ Serves("Query") \/ Serves("Scan")
        /\ response'.status = 200
        /\ Present(request'.body, "ExclusiveStartKey"))
         => StartsWithin(request'.body, response'.body,
                         Remaining(Ranged(dynamodb_items, request'),
                                   request'.body))]_vars

\* The update a request carries: the body of an UpdateItem, the one Update
\* of a transaction; nothing for another request.
UpdateOf(req) ==
    IF req.target = Target("UpdateItem") THEN req.body
    ELSE IF req.target = Target("TransactWriteItems")
    THEN req.body.TransactItems[1].Update
    ELSE <<>>

\* The request applies an update to a record that exists.
Updates(req, items) ==
    /\ req.target \in {Target("UpdateItem"), Target("TransactWriteItems")}
    /\ Stored(items, UpdateOf(req).TableName, UpdateOf(req).Key) # {}

\* The document stored under the key of an update.
DocumentOf(items, upd) ==
    JSONparse(Row(Stored(items, upd.TableName, upd.Key)).item_data)

\* The placeholder is present in the value mapping of the update.
Mapped(upd, source) ==
    /\ Present(upd, "ExpressionAttributeValues")
    /\ Has(upd.ExpressionAttributeValues, source)

\* The attribute a target names: the alias entry of a target that starts
\* with # when there is one, the text of the target otherwise.
Named(upd, target) ==
    IF /\ Head(target) = "#"
       /\ Present(upd, "ExpressionAttributeNames")
       /\ Has(upd.ExpressionAttributeNames, target)
    THEN Get(upd.ExpressionAttributeNames, target).s
    ELSE target

\* The document after the clauses, applied from left to right: an
\* assignment whose source is mapped sets its target, every other clause is
\* skipped.
RECURSIVE Applied(_, _, _)
Applied(doc, clauses, upd) ==
    IF clauses = <<>> THEN doc
    ELSE IF Present(clauses[1], "text") \/ ~Mapped(upd, clauses[1].source)
    THEN Applied(doc, Tail(clauses), upd)
    ELSE Applied(SetProp(doc, Named(upd, clauses[1].target),
                         Get(upd.ExpressionAttributeValues, clauses[1].source)),
                 Tail(clauses), upd)

\* C27: when the two assignments of an expression name the same target and
\* both sources are mapped, the document after the update holds, under the
\* attribute the target names, the value of the later assignment.
C27_LaterAssignmentWins ==
    [][\A c \in ClausesOf(UpdateOf(request')) :
           (/\ Updates(request', dynamodb_items)
            /\ Len(c) = 2
            /\ ~Present(c[1], "text") /\ ~Present(c[2], "text")
            /\ c[1].target = c[2].target
            /\ Mapped(UpdateOf(request'), c[1].source)
            /\ Mapped(UpdateOf(request'), c[2].source))
             => (/\ response'.status = 200
                 /\ Has(DocumentOf(dynamodb_items', UpdateOf(request')),
                        Named(UpdateOf(request'), c[1].target))
                 /\ Get(DocumentOf(dynamodb_items', UpdateOf(request')),
                        Named(UpdateOf(request'), c[1].target))
                        = Get(UpdateOf(request').ExpressionAttributeValues,
                              c[2].source))]_vars

\* C28: an update of one assignment target = source sets the target to the
\* mapped value whenever the source is present in the value mapping,
\* whatever the value (0, false and "" included), and leaves the document
\* as it was, without error, when the source is not mapped.
C28_MappedValueAssigned ==
    [][\A c \in ClausesOf(UpdateOf(request')) :
           (Updates(request', dynamodb_items) /\ Len(c) = 1)
             => (/\ response'.status = 200
                 /\ DocumentOf(dynamodb_items', UpdateOf(request'))
                        = Applied(DocumentOf(dynamodb_items, UpdateOf(request')),
                                  c, UpdateOf(request')))]_vars

\* Every attribute of the document after is an attribute of the document
\* before or the attribute one of the assignments names, with the value
\* mapped to its source.
SetsNamed(before, after, c, upd) ==
    \A i \in 1..Len(after) :
        \/ \E j \in 1..Len(before) : after[i] = before[j]
        \/ \E k \in 1..Len(c) :
               /\ Mapped(upd, c[k].source)
               /\ after[i] = <<Named(upd, c[k].target),
                               Get(upd.ExpressionAttributeValues, c[k].source)>>

\* C29: the attribute an assignment sets is the alias entry of a target
\* that starts with # when the mapping has one, the alias text itself when
\* the mapping is absent or has no entry, and the target itself when it has
\* no marker; no case is an error.
C29_AliasResolution ==
    [][\A upd \in {UpdateOf(request')} :
           \A c \in ClausesOf(upd) :
               (/\ Updates(request', dynamodb_items)
                /\ \A i \in 1..Len(c) : ~Present(c[i], "text"))
                 => (/\ response'.status = 200
                     /\ \A before \in {DocumentOf(dynamodb_items, upd)} :
                            \A after \in {DocumentOf(dynamodb_items', upd)} :
                                SetsNamed(before, after, c, upd))]_vars

\* An update without name aliases set the attribute "#v", the alias text,
\* and an update with them set $v.
C29_Witness ==
    /\ request.target = Target("UpdateItem")
    /\ Present(request.body, "ExpressionAttributeNames")
    /\ Present(request.body, "UpdateExpression")
    /\ request.body.UpdateExpression = SetText(<<Assignment(AliasV, ValueV)>>)
    /\ response.status = 200
    /\ Has(response.body.Attributes, AliasV)
    /\ Get(response.body.Attributes, V) = Num(2)

\* C30: an UpdateItem of a stored record succeeds whatever its expression
\* and returns the resulting document: the document as it was for an
\* expression without a SET clause, and for a list of clauses the document
\* with every well-formed assignment applied and every malformed clause
\* skipped.
C30_MalformedTolerated ==
    [][(Serves("UpdateItem") /\ Updates(request', dynamodb_items))
         => (/\ response'.status = 200
             /\ response'.body.Attributes
                    = DocumentOf(dynamodb_items', request'.body)
             /\ ClausesOf(request'.body) = {}
                    => response'.body.Attributes
                           = DocumentOf(dynamodb_items, request'.body)
             /\ \A c \in ClausesOf(request'.body) :
                    response'.body.Attributes
                        = Applied(DocumentOf(dynamodb_items, request'.body),
                                  c, request'.body))]_vars

\* The k-th sub-operation is an Update whose key has no record when it is
\* processed.
UpdatesNothing(ops, k, before) ==
    /\ Present(ops[k], "Update")
    /\ ~PresentAfter(ops, k - 1, before, Addressed(ops[k]))

\* The batch without its k-th sub-operation.
Without(ops, k) == SubSeq(ops, 1, k - 1) \o SubSeq(ops, k + 1, Len(ops))

\* The rows a batch leaves when it is served at the present time.
RowsOfBatch(before, ops) ==
    TransactLoop(before, ops, [i \in 1..(2 * Len(ops)) |-> clock], 0).db

\* C31: a transaction with an Update whose key has no record when the
\* Update is processed succeeds, the Update creates no record, and the
\* other sub-operations are applied: the store is the one the batch without
\* that Update leaves.
C31_TransactUpdateAbsent ==
    [][(/\ Serves("TransactWriteItems")
        /\ \A j \in 1..Len(TransactItems) : ~Malformed(TransactItems[j]))
         => \A k \in 1..Len(TransactItems) :
                UpdatesNothing(TransactItems, k, dynamodb_items)
                  => (/\ response'.status = 200
                      /\ AllEffectsPresent(TransactItems, dynamodb_items,
                                           dynamodb_items')
                      /\ LastOn(TransactItems, k)
                           => RowsAt(dynamodb_items', Addressed(TransactItems[k])) = {}
                      /\ dynamodb_items'
                           = RowsOfBatch(dynamodb_items, Without(TransactItems, k)))]_vars

\* A batch of an Update of a key without record and a Put of the id item
\* succeeded: the key still has no record and the id item is stored.
C31_Witness ==
    /\ request.target = Target("TransactWriteItems")
    /\ Len(request.body.TransactItems) = 2
    /\ Present(request.body.TransactItems[1], "Update")
    /\ request.body.TransactItems[2]
           = [Put |-> [TableName |-> "t1", Item |-> <<<<ID, Str(<<"i">>)>>>>]]
    /\ response.status = 200
    /\ Stored(dynamodb_items, "t1", TxKey) = {}
    /\ Stored(dynamodb_items, "t1", <<<<ID, Str(<<"i">>)>>>>) # {}

\* The documents (none or one) at address a once the first k
\* sub-operations have taken effect in list order: a Put leaves its item, a
\* Delete no document, an Update the document it finds with its assignment
\* applied.
RECURSIVE DocumentAfter(_, _, _, _)
Updated(docs, upd) ==
    {SetProp(doc, V, Get(upd.ExpressionAttributeValues, <<":", "v">>)) :
        doc \in docs}

DocumentAfter(ops, k, before, a) ==
    IF k = 0 THEN {JSONparse(r.item_data) : r \in RowsAt(before, a)}
    ELSE IF Addressed(ops[k]) # a THEN DocumentAfter(ops, k - 1, before, a)
    ELSE IF Present(ops[k], "Put") THEN {ops[k].Put.Item}
    ELSE IF Present(ops[k], "Delete") THEN {}
    ELSE Updated(DocumentAfter(ops, k - 1, before, a), ops[k].Update)

\* The documents at address a in rows.
DocumentsAt(rows, a) == {JSONparse(r.item_data) : r \in RowsAt(rows, a)}

\* The orders in which n sub-operations can be listed.
Orders(n) == {f \in [1..n -> 1..n] : \A i, j \in 1..n : f[i] = f[j] => i = j}

\* The sub-operations address pairwise different keys.
PairwiseDifferent(ops) ==
    \A i, j \in 1..Len(ops) : Addressed(ops[i]) = Addressed(ops[j]) => i = j

\* C32: the sub-operations of a batch take effect in list order: after a
\* batch that succeeds every address it writes to holds the document the
\* last effective write left (Put then Update: the Put's item with the
\* update applied; Put then Delete: none; Delete then Put: the Put's item),
\* and a batch whose sub-operations address pairwise different keys leaves
\* the same store in whatever order they are listed.
C32_TransactListOrder ==
    [][(/\ Serves("TransactWriteItems")
        /\ \A j \in 1..Len(TransactItems) : ~Malformed(TransactItems[j]))
         => (/\ response'.status = 200
             /\ \A k \in 1..Len(TransactItems) :
                    DocumentsAt(dynamodb_items', Addressed(TransactItems[k]))
                        = DocumentAfter(TransactItems, Len(TransactItems),
                                        dynamodb_items, Addressed(TransactItems[k]))
             /\ PairwiseDifferent(TransactItems)
                    => \A f \in Orders(Len(TransactItems)) :
                           RowsOfBatch(dynamodb_items,
                                       [i \in 1..Len(TransactItems) |->
                                           TransactItems[f[i]]])
                               = dynamodb_items')]_vars

\* A batch of a Put and an Update of the same key left the Put's item with
\* the new version.
C32_Witness ==
    /\ request.target = Target("TransactWriteItems")
    /\ Len(request.body.TransactItems) = 2
    /\ request.body.TransactItems[1] = [Put |-> [TableName |-> "t1", Item |-> TxItem]]
    /\ Present(request.body.TransactItems[2], "Update")
    /\ response.status = 200
    /\ DocumentsAt(dynamodb_items, [table |-> "t1", key |-> generateItemKey(TxKey)])
           = {SetProp(TxItem, V, Num(2))}

\* The documents of rows.
Documents(rows) == {JSONparse(r.item_data) : r \in rows}

\* A set of documents holds one item of the transaction without the other.
Partial(docs) == \E i \in PairItems : i \in docs /\ ~(PairItems \subseteq docs)

\* The items a GetItem, Query or Scan response shows.
Shown(resp) ==
    IF Present(resp.body, "Items")
    THEN {resp.body.Items[i] : i \in 1..Len(resp.body.Items)}
    ELSE IF Present(resp.body, "Item") THEN {resp.body.Item}
    ELSE {}

\* The GetItem saw the second item of the transaction while the store it
\* read did not hold the first.
GetSawPartial(req, resp, items) ==
    /\ req.target = Target("GetItem")
    /\ Shown(resp) # {}
    /\ ~(PairItems \subseteq Documents(items))

\* The request was served and answered 200.
Done(body) == \E e \in inflight.done : e.req.body = body

\* C33: handlers do not interleave.  A step serves one request whole: an
\* UpdateItem in flight applies its assignment to the document the store
\* holds when it runs and changes no other row, so that once the two
\* concurrent updates of one key are served the document holds both
\* attributes; no state holds one item of the transaction without the
\* other, and no GetItem, Query or Scan shows one without the other.
C33_NoInterleaving ==
    [][/\ (Serves("UpdateItem") /\ response'.status = 200)
            => \A c \in ClausesOf(request'.body) :
                   /\ DocumentOf(dynamodb_items', request'.body)
                          = Applied(DocumentOf(dynamodb_items, request'.body),
                                    c, request'.body)
                   /\ Cardinality(dynamodb_items') = Cardinality(dynamodb_items)
       /\ ~Partial(Documents(dynamodb_items'))
       /\ (Serves("Query") \/ Serves("Scan")) => ~Partial(Shown(response'))
       /\ ~GetSawPartial(request', response', dynamodb_items)
       /\ (inflight'.done # {})
            => \A doc \in {DocumentOf(dynamodb_items', SetXBody)} :
                   /\ Done(SetXBody)' => (Has(doc, X) /\ Get(doc, X) = Num(1))
                   /\ Done(SetVBody)' => Get(doc, V) = Num(2)]_vars

\* The two updates arrived before either was served, both were served, and
\* the document holds the attributes of both.
C33_Witness ==
    /\ \E e1, e2 \in inflight.done :
           /\ e1.req.body = SetXBody
           /\ e2.req.body = SetVBody
           /\ e1.arrived = e2.arrived
           /\ Documents(e1.arrived) = {TxItem}
    /\ Get(DocumentOf(dynamodb_items, SetXBody), X) = Num(1)
    /\ Get(DocumentOf(dynamodb_items, SetXBody), V) = Num(2)

\* C34: every stored record is stored under the key derived from its own
\* document, also after an UpdateItem or a transactional Update whose SET
\* clause writes $p, $s or id.
C34_KeyConsistency ==
    \A r \in dynamodb_items : generateItemKey(JSONparse(r.item_data)) = r.item_key

\* C35: in every reachable state every stored record has created_at <=
\* updated_at, however the clock advances between the clock reads of one
\* request.
C35_TimestampOrder ==
    \A r \in dynamodb_items : r.created_at <= r.updated_at

\* The rows of the tables other than table.
OtherTables(items, table) == {r \in items : r.table_name # table}

\* The step serves a request of one of the operations.
ServesOneOf(ops) == \E op \in ops : Serves(op)

\* C36: PutItem, UpdateItem, DeleteItem and CreateTable naming a table leave
\* the rows of every other table as they were, and a Query or Scan of a
\* table returns only documents of rows of that table.
C36_TableIsolation ==
    [][/\ ServesOneOf({"PutItem", "UpdateItem", "DeleteItem", "CreateTable"})
            => (OtherTables(dynamodb_items', request'.body.TableName)
                   = OtherTables(dynamodb_items, request'.body.TableName))
       /\ ServesOneOf({"Query", "Scan"})
            => (Shown(response')
                   \subseteq Documents(dynamodb_items
                                 \ OtherTables(dynamodb_items,
                                               request'.body.TableName)))]_vars

\* Two tables hold different documents under the same derived key, and a
\* Scan of one of them returned its document alone.
C36_Witness ==
    /\ request.target = Target("Scan")
    /\ \E r, q \in dynamodb_items :
           /\ r.item_key = q.item_key
           /\ r.table_name = request.body.TableName
           /\ q.table_name # r.table_name
           /\ r.item_data # q.item_data
           /\ response.body.Items = <<JSONparse(r.item_data)>>

\* The rows other than the one an update addresses.
Unaddressed(items, upd) ==
    {r \in items :
        ~Conflicting(r, upd.TableName, generateItemKey(upd.Key))}

\* The attributes the SET clause of an update of SpecKey names as targets.
TargetsOf(upd) ==
    {Named(upd, c[k].target) :
        k \in {1}, c \in {l \in KeyClauses : SetText(l) = upd.UpdateExpression}}

\* Every attribute of before that is not a target has its value in after.
KeepsOthers(before, after, targets) ==
    \A i \in 1..Len(before) :
        before[i][1] \notin targets
            => (Has(after, before[i][1])
                /\ Get(after, before[i][1]) = before[i][2])

\* C37: a successful UpdateItem leaves every row but the one its Key
\* addresses as it was and adds none; in the addressed document every
\* attribute that is not a SET target keeps its value; and the Attributes
\* returned are the Item a GetItem of the same key returns afterwards.
C37_UpdateItemFrame ==
    [][(Serves("UpdateItem") /\ response'.status = 200)
          => /\ Unaddressed(dynamodb_items', request'.body)
                    = Unaddressed(dynamodb_items, request'.body)
             /\ Cardinality(dynamodb_items') = Cardinality(dynamodb_items)
             /\ KeepsOthers(DocumentOf(dynamodb_items, request'.body),
                            DocumentOf(dynamodb_items', request'.body),
                            TargetsOf(request'.body))
             /\ response'.body.Attributes
                    = handleGetItem(dynamodb_tables', dynamodb_items',
                                    [TableName |-> request'.body.TableName,
                                     Key |-> request'.body.Key]).resp.body.Item]_vars

\* An UpdateItem changed one of two records: the other is stored, and the
\* changed document holds the target with its new value beside the
\* attributes it had.
C37_Witness ==
    /\ request.target = Target("UpdateItem")
    /\ response.status = 200
    /\ Cardinality(dynamodb_items) = 2
    /\ Present(response.body, "Attributes")
    /\ Len(response.body.Attributes) > 3
    /\ Get(response.body.Attributes, V) = Num(1)
    /\ Get(response.body.Attributes, ID) = Str(<<"2">>)

\* The operations on items.
ItemOperations ==
    {"PutItem", "GetItem", "UpdateItem", "DeleteItem", "Query", "Scan",
     "TransactWriteItems"}

\* The rows and the response are those the request leaves when
\* dynamodb_tables holds tables.
SameWith(tables, items, req, rows, resp) ==
    \A outcome \in {Serve(tables, items, req.target, req.body,
                          [i \in 1..2 |-> clock])} :
        outcome.items = rows /\ outcome.resp = resp

\* C38: whatever dynamodb_tables holds (no row, or for either table the
\* composite or the simple key schema), an item operation leaves the rows
\* and returns the response it would with no table ever created, and
\* leaves dynamodb_tables as it is.
C38_MetadataIgnored ==
    [][ServesOneOf(ItemOperations)
          => /\ dynamodb_tables' = dynamodb_tables
             /\ SameWith({}, dynamodb_items, request',
                         dynamodb_items', response')]_vars

\* A GetItem returned the item of a table that was never created.
C38_Witness ==
    /\ request.target = Target("GetItem")
    /\ Present(response.body, "Item")
    /\ \A r \in dynamodb_tables : r.table_name # request.body.TableName
    /\ \E r \in dynamodb_tables : r.table_name # request.body.TableName

\* A response without LastEvaluatedKey holds the document of every row of
\* the result after the start key of its request.
EndHidesNothing ==
    (/\ request.target \in {Target("Query"), Target("Scan")}
     /\ response.status = 200
     /\ ~Present(response.body, "LastEvaluatedKey"))
        => \A r \in Remaining(Ranged(dynamodb_items, request), request.body) :
               JSONparse(r.item_data) \in Shown(response)

Resigned(req, g) == [req EXCEPT !.query = [@ EXCEPT !.Signature = g]]

\* The rows of objects and the response a presigned request leaves when it
\* is served at time now.
PresignedOutcome(rows, req, now) ==
    IF req.method = "PUT"
    THEN handlePutObject(rows, Verified(req, now), now)
    ELSE [objects |-> rows, resp |-> handleGetObject(rows, Verified(req, now))]

====
